---- MODULE Spec2Model ----
(***************************************************************************)
(* Job Analyser backend: the analysis cache (DataManager), its cache key   *)
(* generator, and the analysis request flows of server.js.                 *)
(*                                                                         *)
(*   Spec     the DataManager API called sequentially (save/load/delete)   *)
(*   KeySpec  the pure key generator generateFilename applied to inputs    *)
(*   ReqSpec  concurrent analysis requests of the two analysis endpoints   *)
(***************************************************************************)
EXTENDS Integers, Sequences, FiniteSets, Bags, TLC

VARIABLES
    store,      \* the data directory: filename -> file text
    clock,      \* the wall clock read by new Date()
    ret,        \* the last DataManager call of Spec and what it returned
    kin,        \* KeySpec: the two inputs handed to generateFilename
    kout,       \* KeySpec: the two filenames it returned
    req,        \* ReqSpec: the bag of requests, each with its handler's state
    config,     \* ReqSpec: the AI provider configuration of the process
    lastWrite,  \* ReqSpec: the text of the write that completed last
    addedSkills, \* me/added_skills.json: the skills added through the UI
    adders,     \* AddSpec: the POST /api/add-skill requests and their handlers
    cin,        \* MatchSpec: the input handed to the matching engine
    cout        \* MatchSpec: what the matching engine returned

storeVars == <<store, clock, ret>>
keyVars   == <<kin, kout>>
reqVars   == <<req, config, lastWrite>>
skillVars == <<addedSkills, adders>>
matchVars == <<cin, cout>>
vars      == <<store, clock, ret, kin, kout, req, config, lastWrite, addedSkills, adders,
               cin, cout>>

(***************************************************************************)
(* Bounds of the model.                                                    *)
(***************************************************************************)
MaxClock == 1       \* the clock is read at 0..MaxClock
MaxFiles == 2       \* files the data directory holds in Spec
MaxReqs  == 2       \* analysis requests of a run of ReqSpec

(***************************************************************************)
(* Input domains.                                                          *)
(***************************************************************************)
Url1 == "https://www.linkedin.com/jobs/view/1"
Url2 == "https://www.linkedin.com/jobs/view/2"
Urls == {Url1, Url2}

\* a string new URL(url) throws on
BadUrl == "not a url"
UrlParses(url) == url \in Urls

\* A resume identity as the callers build it; supplied = FALSE is the
\* default parameter {} (no filename, no fileSize).
NoResumeInfo == [supplied |-> FALSE, filename |-> "", fileSize |-> 0]
ResumeInfo(f, n) == [supplied |-> TRUE, filename |-> f, fileSize |-> n]
Filenames == {"", "r1.pdf", "r2.pdf"}
FileSizes == {0, 100, 200}
ResumeInfos == {NoResumeInfo} \cup {ResumeInfo(f, n) : f \in Filenames, n \in FileSizes}

\* "" is the default parameter of jobDescription. "r1.pdf_100" is a
\* description that reads like a resume key.
Descriptions == {"", "desc v1", "desc v2", "r1.pdf_100"}

(***************************************************************************)
(* crypto.createHash('md5').update(s).digest('hex'), tabulated with the    *)
(* real digests of the strings of the input domains.                       *)
(***************************************************************************)
Md5Hex(s) ==
    CASE s = "https://www.linkedin.com/jobs/view/1" -> "d2db8cca4cd45f3bfd8397dab436943e"
      [] s = "https://www.linkedin.com/jobs/view/2" -> "4f4851f605b024fa0b23c8f29c8d5e57"
      [] s = "r1.pdf_100" -> "06736d254140a4391f97769fac440b07"
      [] s = "r1.pdf_200" -> "0761b12adbb04e657084893059cb327e"
      [] s = "r2.pdf_100" -> "4f1e25e99ae9d256705f89b84c5a886e"
      [] s = "r2.pdf_200" -> "e9ff957d3f4acf01e2178fd2b9262b88"
      [] s = "desc v1" -> "e55d7f2e6bb510a4e958d7d59aa3a98b"
      [] s = "desc v2" -> "1030c9e83ee7f005ada00646a07b8ebc"

\* h.substring(0, 8) of a digest.
Substring8(h) ==
    CASE h = "d2db8cca4cd45f3bfd8397dab436943e" -> "d2db8cca"
      [] h = "4f4851f605b024fa0b23c8f29c8d5e57" -> "4f4851f6"
      [] h = "06736d254140a4391f97769fac440b07" -> "06736d25"
      [] h = "0761b12adbb04e657084893059cb327e" -> "0761b12a"
      [] h = "4f1e25e99ae9d256705f89b84c5a886e" -> "4f1e25e9"
      [] h = "e9ff957d3f4acf01e2178fd2b9262b88" -> "e9ff957d"
      [] h = "e55d7f2e6bb510a4e958d7d59aa3a98b" -> "e55d7f2e"
      [] h = "1030c9e83ee7f005ada00646a07b8ebc" -> "1030c9e8"

\* new URL(url).hostname.replace(/\./g, '_')
Hostname(url) ==
    CASE url = Url1 -> "www_linkedin_com"
      [] url = Url2 -> "www_linkedin_com"

(***************************************************************************)
(* DataManager.generateFilename. The filename                              *)
(*   `${hostname}_${urlHash}${resumeHash}${descHash}.json`                 *)
(* is kept as the sequence of its "_"-separated parts after the hostname;  *)
(* resumeHash and descHash are each "" or "_" + 8 hex digits, so an absent *)
(* part leaves no trace in the name.                                       *)
(***************************************************************************)
\* the filename without the description part, as before descriptions were
\* made part of the key
generateFilenameNoDesc(url, resumeInfo, jobDescription) ==
    <<Hostname(url), Md5Hex(url)>>
    \o (IF resumeInfo.supplied /\ resumeInfo.filename # "" /\ resumeInfo.fileSize # 0
        THEN <<Substring8(Md5Hex(resumeInfo.filename \o "_" \o ToString(resumeInfo.fileSize)))>>
        ELSE <<>>)

\* the filename without the resume part
generateFilenameNoResume(url, resumeInfo, jobDescription) ==
    <<Hostname(url), Md5Hex(url)>>
    \o (IF jobDescription # "" THEN <<Substring8(Md5Hex(jobDescription))>> ELSE <<>>)

ResumeHash(resumeInfo) ==
    IF resumeInfo.supplied /\ resumeInfo.filename # "" /\ resumeInfo.fileSize # 0
    THEN <<Substring8(Md5Hex(resumeInfo.filename \o "_" \o ToString(resumeInfo.fileSize)))>>
    ELSE <<>>

DescHash(jobDescription) ==
    IF jobDescription # ""
    THEN <<Substring8(Md5Hex(jobDescription))>>
    ELSE <<>>

generateFilename(url, resumeInfo, jobDescription) ==
    <<Hostname(url), Md5Hex(url)>> \o ResumeHash(resumeInfo) \o DescHash(jobDescription)

(***************************************************************************)
(* JSON text. A text is the sequence of the tokens that carry the values   *)
(* of a stored document; JSON.stringify writes them and JSON.parse reads   *)
(* them back, and rejects a text that is not one whole document.           *)
(***************************************************************************)
Digit(d) == ToString(d)
IsDigit(c) == \E d \in 0..9 : Digit(d) = c
DigitValue(c) == CHOOSE d \in 0..9 : Digit(d) = c

\* a number below 100 in decimal
NumberToJson(n) ==
    IF n < 10 THEN <<Digit(n)>> ELSE <<Digit(n \div 10), Digit(n % 10)>>

JsonToNumber(ds) ==
    IF Len(ds) = 1 THEN DigitValue(ds[1])
    ELSE 10 * DigitValue(ds[1]) + DigitValue(ds[2])

BoolToJson(b) == IF b THEN "true" ELSE "false"

\* new Date(t).toISOString() and new Date(s) on such a string
toISOString(t) == "T" \o ToString(t)
DateParse(s) == CHOOSE t \in 0..(MaxClock + 1) : toISOString(t) = s

\* A property whose value is undefined is left out of the text: <<>> is
\* undefined and <<n>> the number n.
OptNumberToJson(o) == IF o = <<>> THEN <<>> ELSE NumberToJson(o[1])
JsonToOptNumber(ds) == IF ds = <<>> THEN <<>> ELSE <<JsonToNumber(ds)>>

\* metadata.resumeInfo of a payload, {filename, fileSize}: <<>> is undefined
\* and <<id>> the object; the object is one token of the text.
ResumeInfoToJson(o) ==
    IF o = <<>> THEN <<>>
    ELSE <<"resumeInfo:" \o o[1].filename \o ":" \o ToString(o[1].fileSize)>>
IsResumeInfoJson(token) ==
    \E id \in ResumeInfos \ {NoResumeInfo} : ResumeInfoToJson(<<id>>) = <<token>>
JsonToResumeInfo(ts) ==
    IF ts = <<>> THEN <<>>
    ELSE <<CHOOSE id \in ResumeInfos \ {NoResumeInfo} : ResumeInfoToJson(<<id>>) = ts>>

\* a stringify that writes only the last digit of processingTime
JsonStringifyLastDigit(doc) ==
    <<"{", doc.url, doc.timestamp,
      doc.analysisData.analysisMethod, BoolToJson(doc.analysisData.aiEnabled)>>
    \o (IF doc.analysisData.processingTime = <<>> THEN <<>>
        ELSE <<Digit(doc.analysisData.processingTime[1] % 10)>>)
    \o ResumeInfoToJson(doc.analysisData.resumeInfo)
    \o <<doc.metadata.savedAt, doc.metadata.version, doc.metadata.fileFormat, "}">>

\* JSON.stringify(dataToSave, null, 2)
JsonStringify(doc) ==
    <<"{", doc.url, doc.timestamp,
      doc.analysisData.analysisMethod, BoolToJson(doc.analysisData.aiEnabled)>>
    \o OptNumberToJson(doc.analysisData.processingTime)
    \o ResumeInfoToJson(doc.analysisData.resumeInfo)
    \o <<doc.metadata.savedAt, doc.metadata.version, doc.metadata.fileFormat, "}">>

\* where the tokens of the payload end in a text of Len(text) >= 9 tokens:
\* the resumeInfo token, when there is one, is the last of them
HasResumeInfo(text) == Len(text) >= 10 /\ IsResumeInfoJson(text[Len(text) - 4])
LastDigit(text) == IF HasResumeInfo(text) THEN Len(text) - 5 ELSE Len(text) - 4

JsonWellFormed(text) ==
    /\ Len(text) \in 9..12
    /\ text[1] = "{"
    /\ text[Len(text)] = "}"
    /\ text[5] \in {"true", "false"}
    /\ LastDigit(text) <= 7
    /\ \A i \in 6..LastDigit(text) : IsDigit(text[i])

\* JSON.parse(text): <<doc>>, or <<>> where it throws SyntaxError
JsonParse(text) ==
    IF JsonWellFormed(text)
    THEN <<[url          |-> text[2],
            timestamp    |-> text[3],
            analysisData |-> [analysisMethod |-> text[4],
                              aiEnabled      |-> text[5] = "true",
                              processingTime |-> JsonToOptNumber(SubSeq(text, 6, LastDigit(text))),
                              resumeInfo     |-> JsonToResumeInfo(
                                                   SubSeq(text, LastDigit(text) + 1,
                                                          Len(text) - 4))],
            metadata     |-> [savedAt    |-> text[Len(text) - 3],
                              version    |-> text[Len(text) - 2],
                              fileFormat |-> text[Len(text) - 1]]]>>
    ELSE <<>>

(***************************************************************************)
(* DataManager: the analysis store.                                        *)
(***************************************************************************)
\* the object saveAnalysisResult builds before writing it
dataToSave(url, analysisData, now) ==
    [url          |-> url,
     timestamp    |-> toISOString(now),
     analysisData |-> analysisData,
     metadata     |-> [savedAt    |-> toISOString(now),
                       version    |-> "1.0",
                       fileFormat |-> "linkedin-analyzer-v1"]]

\* fs.existsSync(filepath)
existsSync(st, filename) == filename \in DOMAIN st

\* the directory after writeFile(filepath, text) has completed alone
WriteFile(st, filename, text) == (filename :> text) @@ st

\* the directory after unlink(filepath)
Unlink(st, filename) == [f \in (DOMAIN st) \ {filename} |-> st[f]]

\* What loadAnalysisResult returns on the directory st: <<record>>, or <<>>
\* for null (no such file, or the catch block after a parse error).
loadAnalysisResult(st, url, resumeInfo, jobDescription) ==
    IF ~UrlParses(url) THEN <<>>
    ELSE LET filename == generateFilename(url, resumeInfo, jobDescription)
         IN  IF ~existsSync(st, filename) THEN <<>> ELSE JsonParse(st[filename])

\* What checkAnalysisExists returns: <<metadata>>, or <<>> for null. It
\* builds the filename from url and resumeInfo alone.
checkAnalysisExists(st, url, resumeInfo) ==
    IF ~UrlParses(url) THEN <<>>
    ELSE LET filename == generateFilename(url, resumeInfo, "")
             data     == JsonParse(st[filename])
         IN  IF ~existsSync(st, filename) \/ data = <<>> THEN <<>>
             ELSE <<[exists         |-> TRUE,
                     lastAnalyzed   |-> data[1].timestamp,
                     savedAt        |-> data[1].metadata.savedAt,
                     aiEnabled      |-> data[1].analysisData.aiEnabled,
                     analysisMethod |-> data[1].analysisData.analysisMethod]>>

\* a prefix test on the hostname alone
StartsWithHostname(filename, url) == filename[1] = Hostname(url)

\* file.startsWith(`${hostname}_${urlHash}`)
StartsWithBasePattern(filename, url) ==
    filename[1] = Hostname(url) /\ filename[2] = Md5Hex(url)

\* the stable sort of an array with the comparator
\* (a, b) => new Date(b.timestamp) - new Date(a.timestamp)
RECURSIVE SortNewestFirst(_)
InsertNewestFirst(sorted, e) ==
    LET before == {i \in 1..Len(sorted) :
                     \A j \in 1..i : DateParse(sorted[j].timestamp) >= DateParse(e.timestamp)}
        k      == Cardinality(before)
    IN  SubSeq(sorted, 1, k) \o <<e>> \o SubSeq(sorted, k + 1, Len(sorted))
SortNewestFirst(entries) ==
    IF entries = <<>> THEN <<>>
    ELSE InsertNewestFirst(SortNewestFirst(SubSeq(entries, 1, Len(entries) - 1)),
                           entries[Len(entries)])

\* The loop of findAllAnalysesForJob over files, the names readdir returned:
\* <<entries>>, or <<>> where JSON.parse throws out of the loop.
RECURSIVE JobAnalyses(_, _, _)
JobAnalyses(st, url, files) ==
    IF files = <<>> THEN <<<<>>>>
    ELSE LET file == files[Len(files)]
             rest == JobAnalyses(st, url, SubSeq(files, 1, Len(files) - 1))
             data == JsonParse(st[file])
         IN  IF rest = <<>> THEN <<>>
             ELSE IF ~StartsWithBasePattern(file, url) THEN rest
             ELSE IF data = <<>> THEN <<>>
             ELSE <<Append(rest[1], [filename   |-> file,
                                     resumeInfo |-> data[1].analysisData.resumeInfo,
                                     timestamp  |-> data[1].timestamp,
                                     data       |-> data[1]])>>

\* What findAllAnalysesForJob returns when readdir returns files; the catch
\* block around all of it returns [].
findAllAnalysesForJob(st, url, files) ==
    IF ~UrlParses(url) THEN <<>>
    ELSE LET jobAnalyses == JobAnalyses(st, url, files)
         IN  IF jobAnalyses = <<>> THEN <<>> ELSE SortNewestFirst(jobAnalyses[1])

\* a listing that gives up at a file whose text does not parse
RECURSIVE AllAnalysesAborting(_, _)
AllAnalysesAborting(st, files) ==
    IF files = <<>> \/ \E i \in DOMAIN files : JsonParse(st[files[i]]) = <<>> THEN <<>>
    ELSE LET file == files[Len(files)]
             data == JsonParse(st[file])
         IN  Append(AllAnalysesAborting(st, SubSeq(files, 1, Len(files) - 1)),
                    [url       |-> data[1].url,
                     timestamp |-> data[1].timestamp,
                     aiEnabled |-> data[1].analysisData.aiEnabled,
                     fileSize  |-> Len(st[file]),
                     filename  |-> file])

\* What listAllAnalyses returns when readdir returns files: a file whose
\* text does not parse gives null, and the nulls are filtered out.
RECURSIVE AllAnalyses(_, _)
AllAnalyses(st, files) ==
    IF files = <<>> THEN <<>>
    ELSE LET file == files[Len(files)]
             data == JsonParse(st[file])
             rest == AllAnalyses(st, SubSeq(files, 1, Len(files) - 1))
         IN  IF data = <<>> THEN rest
             ELSE Append(rest, [url       |-> data[1].url,
                                timestamp |-> data[1].timestamp,
                                aiEnabled |-> data[1].analysisData.aiEnabled,
                                fileSize  |-> Len(st[file]),
                                filename  |-> file])
listAllAnalyses(st, files) == SortNewestFirst(AllAnalyses(st, files))

(***************************************************************************)
(* Spec: the DataManager API, one call at a time. ret records the last     *)
(* call: its arguments and what it returned. The calls are short enough    *)
(* that the clock does not advance between them here.                      *)
(***************************************************************************)
StoreUrls == {Url1}
StoreResumeInfos ==
    {NoResumeInfo, ResumeInfo("r1.pdf", 100), ResumeInfo("r2.pdf", 100),
     ResumeInfo("r1.pdf", 200), ResumeInfo("r2.pdf", 0)}
StoreDescriptions == {"", "desc v1", "desc v2"}
Payloads ==
    {[analysisMethod |-> "dictionary_only", aiEnabled |-> FALSE, processingTime |-> <<5>>,
      resumeInfo |-> <<>>],
     [analysisMethod |-> "ai_enhanced", aiEnabled |-> TRUE, processingTime |-> <<12>>,
      resumeInfo |-> <<ResumeInfo("r1.pdf", 100)>>]}

\* how the write of saveAnalysisResult ends: it completes, or writeFile
\* rejects when it opens the file
IoOutcomes == {"ok", "EACCES"}

\* a call and its return value: ok for the boolean of save and delete,
\* data for the value of load (<<>> is null)
Call(op, url, resumeInfo, jobDescription, analysisData, ok, data) ==
    [op |-> op, url |-> url, resumeInfo |-> resumeInfo,
     jobDescription |-> jobDescription, analysisData |-> analysisData,
     ok |-> ok, data |-> data]

StoreInit ==
    /\ store = <<>>
    /\ clock = 0
    /\ ret = Call("none", "", NoResumeInfo, "", <<>>, FALSE, <<>>)

\* writeFile opens the file for writing, which empties it, writes the text
\* and closes it: with EACCES the open fails, with ENOSPC the write does.
\* new URL(url) throwing is caught like the rejection of writeFile.
saveAnalysisResult(url, analysisData, resumeInfo, jobDescription, io) ==
    IF ~UrlParses(url)
    THEN /\ ret' = Call("save", url, resumeInfo, jobDescription, <<analysisData>>,
                        FALSE, <<>>)
         /\ UNCHANGED <<store, clock>>
    ELSE LET filename == generateFilename(url, resumeInfo, jobDescription)
             text     == JsonStringify(dataToSave(url, analysisData, clock))
         IN  /\ store' = CASE io = "ok"     -> WriteFile(store, filename, text)
                            [] io = "ENOSPC" -> WriteFile(store, filename, <<>>)
                            [] OTHER         -> store
             /\ ret' = Call("save", url, resumeInfo, jobDescription, <<analysisData>>,
                            io = "ok", <<>>)
             /\ UNCHANGED clock

LoadCall(url, resumeInfo, jobDescription) ==
    LET data == loadAnalysisResult(store, url, resumeInfo, jobDescription)
    IN  /\ ret' = Call("load", url, resumeInfo, jobDescription, <<>>, data # <<>>, data)
        /\ UNCHANGED <<store, clock>>

\* deleteAnalysis on the directory st: the directory it leaves and the
\* boolean it returns
deleteAnalysisFrom(st, url, resumeInfo) ==
    IF ~UrlParses(url) THEN [store |-> st, deleted |-> FALSE]
    ELSE LET filename == generateFilename(url, resumeInfo, "")
         IN  IF existsSync(st, filename)
             THEN [store |-> Unlink(st, filename), deleted |-> TRUE]
             ELSE [store |-> st, deleted |-> FALSE]

deleteAnalysis(url, resumeInfo) ==
    LET done == deleteAnalysisFrom(store, url, resumeInfo)
    IN  /\ store' = done.store
        /\ ret' = Call("delete", url, resumeInfo, "", <<>>, done.deleted, <<>>)
        /\ UNCHANGED clock

SaveStep ==
    \E url \in StoreUrls, analysisData \in Payloads, resumeInfo \in StoreResumeInfos,
       jobDescription \in StoreDescriptions, io \in IoOutcomes :
        /\ \/ existsSync(store, generateFilename(url, resumeInfo, jobDescription))
           \/ Cardinality(DOMAIN store) < MaxFiles
        /\ saveAnalysisResult(url, analysisData, resumeInfo, jobDescription, io)

LoadStep ==
    \E url \in StoreUrls, resumeInfo \in StoreResumeInfos,
       jobDescription \in StoreDescriptions :
        LoadCall(url, resumeInfo, jobDescription)

DeleteStep ==
    \E url \in StoreUrls, resumeInfo \in StoreResumeInfos :
        deleteAnalysis(url, resumeInfo)

Next ==
    \/ SaveStep /\ UNCHANGED <<keyVars, reqVars, skillVars, matchVars>>
    \/ LoadStep /\ UNCHANGED <<keyVars, reqVars, skillVars, matchVars>>
    \/ DeleteStep /\ UNCHANGED <<keyVars, reqVars, skillVars, matchVars>>

KeyIdle == kin = <<>> /\ kout = <<>>
ReqIdle == req = EmptyBag /\ config = "cloud" /\ lastWrite = <<>>
\* loadAddedSkills reads a missing file as { skills: [], addedAt: [] };
\* parses is FALSE while the text of the file is not JSON
NoAddedSkills == [parses |-> TRUE, skills |-> <<>>, addedAt |-> <<>>]
SkillIdle == addedSkills = NoAddedSkills /\ adders = <<>>
MatchIdle == cin = <<>> /\ cout = <<>>

Init == StoreInit /\ KeyIdle /\ ReqIdle /\ SkillIdle /\ MatchIdle

Spec == Init /\ [][Next]_vars

(***************************************************************************)
(* Properties of the store (Spec).                                         *)
(***************************************************************************)
RetFilename == generateFilename(ret.url, ret.resumeInfo, ret.jobDescription)
SavedOk == ret.op = "save" /\ ret.ok

\* C1. Round trip: right after saveAnalysisResult(url, payload, id, desc)
\* has returned true, loadAnalysisResult(url, id, desc) returns a record
\* whose analysisData is payload and whose url is url. (LoadCall returns
\* exactly loadAnalysisResult of the current directory.)
C1_RoundTrip ==
    SavedOk =>
        LET r == loadAnalysisResult(store, ret.url, ret.resumeInfo, ret.jobDescription)
        IN  /\ r # <<>>
            /\ r[1].analysisData = ret.analysisData[1]
            /\ r[1].url = ret.url

C1_Witness ==
    /\ SavedOk
    /\ ret.resumeInfo = ResumeInfo("r1.pdf", 100)
    /\ ret.jobDescription = "desc v1"
    /\ ret.analysisData[1].processingTime = <<12>>
    /\ Cardinality(DOMAIN store) = 2

\* C2. Description-change invalidation: when save(url, payload, id, d1) has
\* returned true and the store holds nothing else, load(url, id, d2) is null
\* for every description d2 other than d1, and load(url, id, d1) returns
\* the record holding payload.
C2_DescriptionChange ==
    (SavedOk /\ DOMAIN store = {RetFilename}) =>
        /\ \A d2 \in StoreDescriptions \ {ret.jobDescription} :
              loadAnalysisResult(store, ret.url, ret.resumeInfo, d2) = <<>>
        /\ LET r == loadAnalysisResult(store, ret.url, ret.resumeInfo, ret.jobDescription)
           IN  Len(r) = 1 /\ r[1].analysisData = ret.analysisData[1]

C2_Witness ==
    /\ SavedOk
    /\ DOMAIN store = {RetFilename}
    /\ ret.jobDescription = "desc v1"
    /\ ret.resumeInfo = ResumeInfo("r1.pdf", 100)

\* a resume identity with a non-empty filename and a positive size
ProperResume(id) == id.supplied /\ id.filename # "" /\ id.fileSize > 0

\* C3. Cache segmentation per resume: a save under one proper resume
\* identity leaves what load returns for every other proper identity of the
\* same url (and description) as it was, and load under the saved identity
\* returns the saved payload; so two saves in either order keep both.
C3_SegmentedPerResume ==
    [][(ret'.op = "save" /\ ret'.ok /\ ProperResume(ret'.resumeInfo)) =>
          /\ \A idA \in StoreResumeInfos :
                (ProperResume(idA) /\ idA # ret'.resumeInfo) =>
                    loadAnalysisResult(store', ret'.url, idA, ret'.jobDescription)
                      = loadAnalysisResult(store, ret'.url, idA, ret'.jobDescription)
          /\ LET r == loadAnalysisResult(store', ret'.url, ret'.resumeInfo,
                                         ret'.jobDescription)
             IN  Len(r) = 1 /\ r[1].analysisData = ret'.analysisData[1]
      ]_vars

\* both records are there after save(url, payloadA, idA), save(url, payloadB, idB)
C3_Witness ==
    /\ SavedOk
    /\ ret.resumeInfo = ResumeInfo("r2.pdf", 100)
    /\ ret.jobDescription = ""
    /\ LET a == loadAnalysisResult(store, ret.url, ResumeInfo("r1.pdf", 100), "")
       IN  Len(a) = 1 /\ a[1].analysisData # ret.analysisData[1]

\* C10. delete contract: after deleteAnalysis(url, id) has returned, the
\* store holds no record for (url, id) under any description (it returned
\* true and removed it, or false because there was none).
C10_DeleteContract ==
    ret.op = "delete" =>
        \A d \in StoreDescriptions :
            loadAnalysisResult(store, ret.url, ret.resumeInfo, d) = <<>>

(***************************************************************************)
(* KeySpec: generateFilename applied to two inputs.                        *)
(***************************************************************************)
KeyInputs == [url : Urls, resumeInfo : ResumeInfos, jobDescription : Descriptions]

KeyInit ==
    /\ kin \in KeyInputs \X KeyInputs
    /\ kout = <<>>
    /\ StoreInit
    /\ ReqIdle
    /\ SkillIdle
    /\ MatchIdle

GenerateKeys ==
    /\ kout = <<>>
    /\ kout' = <<generateFilename(kin[1].url, kin[1].resumeInfo, kin[1].jobDescription),
                 generateFilename(kin[2].url, kin[2].resumeInfo, kin[2].jobDescription)>>
    /\ UNCHANGED <<kin, storeVars, reqVars, skillVars, matchVars>>

KeyNext == GenerateKeys

KeySpec == KeyInit /\ [][KeyNext]_vars

\* the components of the two inputs that differ
DifferingComponents(a, b) ==
    {c \in {"url", "resumeInfo", "jobDescription"} : a[c] # b[c]}

\* C4. Cache key sensitivity: two inputs that differ in exactly one of url,
\* resume identity (as supplied, or omitted) and job description (as
\* supplied, or omitted) get different keys.
C4_KeySensitivity ==
    (kout # <<>> /\ Cardinality(DifferingComponents(kin[1], kin[2])) = 1)
        => kout[1] # kout[2]

(***************************************************************************)
(* ReqSpec: concurrent analysis requests. Every request is for the same    *)
(* job, resume and description, so that all of them use one cache key.     *)
(* A handler runs without interruption up to its next await; each action   *)
(* below is one such stretch of one request. The clock stands still here,  *)
(* as in Spec: the records of two requests differ in what they hold.       *)
(***************************************************************************)
ReqUrl == Url1
ReqResumeInfo == ResumeInfo("r1.pdf", 100)
ReqDescription == "desc v1"
ReqFilename == generateFilename(ReqUrl, ReqResumeInfo, ReqDescription)

Endpoints == {"enhanced", "stream"}

\* what the request body holds: all that is needed, no resume content, or
\* job data without a title
Inputs == {"valid", "no_resume", "no_job_title"}

\* aiConfig.getConfig() and the API key: the local Ollama provider, a cloud
\* provider with a key, a cloud provider without one
Configs == {"local", "cloud", "cloud_no_key"}

\* Date.now() - startTime when the response of the enhanced endpoint is built
ProcessingTimes == {5, 12}

\* How the call to the provider ends for the code that awaits it. A provider
\* that stays silent gives the local fetch nothing at all, and makes the
\* cloud client reject with its own timeout error.
Answers(cfg, silent) ==
    CASE cfg = "local" /\ ~silent -> {"ok", "error", "invalid_json"}
      [] cfg = "local" /\ silent  -> {}
      [] cfg = "cloud" /\ ~silent -> {"ok", "error", "invalid_json"}
      [] cfg = "cloud" /\ silent  -> {"timeout"}
      [] cfg = "cloud_no_key"     -> {"no_api_key"}

\* An analysis result: analysisMethod and aiAvailable as the code sets them
\* ("" is undefined), and ai, the origin of the skills under its ai field:
\* the provider's answer ("llm"), the dictionary extractor standing in for
\* it ("dictionary_fallback"), or no such field ("none").
AnalysisResult(method, available, ai) ==
    [analysisMethod |-> method, aiAvailable |-> available, ai |-> ai]

\* analyzeResumeMatch: the dictionary analysis
analyzeResumeMatch == AnalysisResult("", FALSE, "none")

\* combineAnalysisResults(standardAnalysis, aiResults)
combineAnalysisResults(standardAnalysis, ai) ==
    [standardAnalysis EXCEPT !.ai = ai, !.analysisMethod = "ai_enhanced",
                             !.aiAvailable = TRUE]

\* an analyzeResumeMatchLocal whose catch block throws the error again
analyzeResumeMatchLocalRethrow(answer) ==
    IF answer = "ok"
    THEN <<combineAnalysisResults(analyzeResumeMatch, "llm")>>
    ELSE <<>>

\* analyzeResumeMatchLocal once the fetch has ended with answer: <<result>>,
\* or <<>> where it throws
analyzeResumeMatchLocal(answer) ==
    IF answer = "ok"
    THEN <<combineAnalysisResults(analyzeResumeMatch, "llm")>>
    ELSE <<[analyzeResumeMatch EXCEPT !.analysisMethod = "dictionary_only",
                                      !.aiAvailable = FALSE]>>

\* extractResumeSkills / extractJobSkills: extraction_method of what they
\* return; they never throw
extractSkillsAI(answer) ==
    IF answer = "ok" THEN "ai" ELSE "dictionary_fallback"

\* analyzeResumeMatchAI once both extractions have ended with answer
analyzeResumeMatchAI(answer) ==
    LET extraction == extractSkillsAI(answer)
        aiResults  == <<IF extraction = "ai" THEN "llm" ELSE "dictionary_fallback">>
    IN  IF aiResults # <<>>
        THEN <<combineAnalysisResults(analyzeResumeMatch, aiResults[1])>>
        ELSE <<[analyzeResumeMatch EXCEPT !.analysisMethod = "dictionary_only",
                                          !.aiAvailable = FALSE]>>

\* analyzeResumeMatchEnhanced: the router
analyzeResumeMatchEnhanced(cfg, answer) ==
    IF cfg = "local" THEN analyzeResumeMatchLocal(answer)
    ELSE analyzeResumeMatchAI(answer)

(***************************************************************************)
(* What a handler sends: the events of the streaming endpoint (sendEvent), *)
(* and for the enhanced endpoint its one JSON response, a "result" for     *)
(* status 200 and an "error" for 400 and 500.                              *)
(***************************************************************************)
Event(type, step, analysisMethod, aiEnabled, isFromCache) ==
    [type |-> type, step |-> step, analysisMethod |-> analysisMethod,
     aiEnabled |-> aiEnabled, isFromCache |-> isFromCache]
Progress(step) == Event("progress", step, "", FALSE, FALSE)
ErrorEvent(message) == Event("error", message, "", FALSE, FALSE)
ResultEvent(analysisMethod, aiEnabled, isFromCache) ==
    Event("result", "", analysisMethod, aiEnabled, isFromCache)

\* the validation of the request body: "" when it passes, or the error sent
Validate(endpoint, input) ==
    CASE input = "valid" -> ""
      [] input = "no_resume" /\ endpoint = "enhanced" -> "MISSING_RESUME_DATA"
      [] input = "no_resume" /\ endpoint = "stream" -> "No resume content provided"
      [] input = "no_job_title" /\ endpoint = "enhanced" -> "MISSING_JOB_DATA"
      [] input = "no_job_title" /\ endpoint = "stream" -> "Invalid job data"

\* a response built from a cached record that does not say so
CachedResultUnmarked(endpoint, existingAnalysis) ==
    ResultEvent(existingAnalysis.analysisData.analysisMethod,
                existingAnalysis.analysisData.aiEnabled, FALSE)

\* the response built from a cached record
CachedResult(endpoint, existingAnalysis) ==
    LET analysisData == existingAnalysis.analysisData
    IN  IF endpoint = "stream"
        THEN ResultEvent(IF analysisData.analysisMethod = "" THEN "cached"
                         ELSE analysisData.analysisMethod,
                         analysisData.aiEnabled, TRUE)
        ELSE ResultEvent(analysisData.analysisMethod, analysisData.aiEnabled, TRUE)

\* The branch of the enhanced handler that formats the result: the basic
\* response where !analysisResult.jobSkills || !analysisResult.resumeSkills,
\* and else the response made from compareSkillsWeighted. Neither
\* analyzeResumeMatch nor combineAnalysisResults gives the result a field
\* jobSkills or resumeSkills.
ResponseBranch(analysisResult) ==
    IF {"jobSkills", "resumeSkills"} \subseteq DOMAIN analysisResult
    THEN "weighted" ELSE "basic"

\* the payload a handler saves for an analysis result
SavedPayload(endpoint, analysisResult, processingTime) ==
    IF endpoint = "stream"
    THEN [analysisMethod |-> analysisResult.analysisMethod,
          aiEnabled      |-> analysisResult.aiAvailable,
          processingTime |-> <<>>,
          resumeInfo     |-> <<>>]
    ELSE IF ResponseBranch(analysisResult) = "basic"
    THEN [analysisMethod |-> IF analysisResult.analysisMethod = "" THEN "basic"
                             ELSE analysisResult.analysisMethod,
          aiEnabled      |-> FALSE,
          processingTime |-> <<processingTime>>,
          resumeInfo     |-> <<ReqResumeInfo>>]
    ELSE [analysisMethod |-> IF analysisResult.analysisMethod = "" THEN "enhanced"
                             ELSE analysisResult.analysisMethod,
          aiEnabled      |-> analysisResult.aiAvailable,
          processingTime |-> <<processingTime>>,
          resumeInfo     |-> <<ReqResumeInfo>>]

\* the events of analyzeResumeMatchLocal's onProgress before and after the
\* fetch, and those of the streaming handler around the cloud analysis
ProgressBeforeAI(cfg) ==
    IF cfg = "local"
    THEN <<Progress("starting"), Progress("preparing"), Progress("ai_extraction")>>
    ELSE <<Progress("ai_extraction")>>

ProgressAfterAI(cfg, answer) ==
    CASE cfg # "local" -> <<Progress("complete")>>
      [] cfg = "local" /\ answer = "ok" ->
            <<Progress("ai_complete"), Progress("matching"), Progress("complete")>>
      [] cfg = "local" /\ answer = "invalid_json" ->
            <<Progress("ai_complete"), Progress("fallback"), Progress("complete")>>
      [] OTHER -> <<Progress("fallback"), Progress("complete")>>

\* A request and the state of its handler: pc is where the handler stands,
\* answer how its provider call ended ("none" before), silent whether the
\* provider has gone silent on it, analysisResult and doc are <<>> until the
\* handler has them. Of what the handler sent, progress is the step of the
\* last progress event ("" for none) and terminal the result and error
\* events in order. aborted and touched are history: the caller went away
\* while the analysis was pending; the request has opened the cache file.
\* bypassed is history too: the body said forceRerun, the handler skipped a
\* record that was stored under its key, and it has not answered yet.
\* Requests that agree on all of this are not told apart.
NewRequest(endpoint, pc, progress, terminal) ==
    [endpoint |-> endpoint, pc |-> pc, answer |-> "none", silent |-> FALSE,
     analysisResult |-> <<>>, doc |-> <<>>, progress |-> progress,
     terminal |-> terminal, aborted |-> FALSE, touched |-> FALSE,
     bypassed |-> FALSE]

Requests == BagToSet(req)

\* the bag of requests after the handler of q has moved to q2
Moved(q, q2) == (req (-) SetToBag({q})) (+) SetToBag({q2})

\* the step of the last event of a non-empty sequence of progress events
LastStep(sent) == sent[Len(sent)].step

ReqInit ==
    /\ StoreInit
    /\ KeyIdle
    /\ req = EmptyBag
    /\ config \in Configs
    /\ lastWrite = <<>>
    /\ SkillIdle
    /\ MatchIdle

\* A request arrives and its handler runs up to the cache check: it parses
\* and validates the body, and ends with an error if that fails.
Arrive(endpoint, input) ==
    LET error == Validate(endpoint, input)
        sent  == IF endpoint # "stream" THEN <<>>
                 ELSE IF error # "" THEN <<Progress("starting")>>
                 ELSE <<Progress("starting"), Progress("ready")>>
    IN  /\ BagCardinality(req) < MaxReqs
        /\ req' = req (+) SetToBag({
                    NewRequest(endpoint,
                               IF error # "" THEN "done" ELSE "cache_check",
                               IF sent = <<>> THEN "" ELSE LastStep(sent),
                               IF error # "" THEN <<ErrorEvent(error)>> ELSE <<>>)})
        /\ UNCHANGED <<storeVars, keyVars, skillVars, matchVars, config, lastWrite>>

\* The cache check, skipped when the body says forceRerun. On a hit the
\* handler answers with the cached record and ends; otherwise it starts the
\* analysis, which sends the request to the provider.
CacheCheck(q, forceRerun) ==
    LET existing == IF forceRerun THEN <<>>
                    ELSE loadAnalysisResult(store, ReqUrl, ReqResumeInfo, ReqDescription)
        stored   == loadAnalysisResult(store, ReqUrl, ReqResumeInfo, ReqDescription)
        checking == IF ~forceRerun THEN <<Progress("cache_check")>> ELSE <<>>
        sent     == IF existing # <<>> THEN checking
                    ELSE checking \o <<Progress("analyzing")>> \o ProgressBeforeAI(config)
    IN  /\ q.pc = "cache_check"
        /\ req' = Moved(q,
             [q EXCEPT !.pc = IF existing # <<>> THEN "done" ELSE "ai_wait",
                       !.bypassed = forceRerun /\ stored # <<>>,
                       !.progress = IF q.endpoint = "stream" /\ sent # <<>>
                                    THEN LastStep(sent) ELSE @,
                       !.terminal = IF existing # <<>>
                                    THEN Append(@, CachedResult(q.endpoint, existing[1]))
                                    ELSE @])
        /\ UNCHANGED <<storeVars, keyVars, skillVars, matchVars, config, lastWrite>>

\* The provider goes silent on the request it has accepted.
ProviderSilent(q) ==
    /\ q.pc = "ai_wait"
    /\ ~q.silent
    /\ config # "cloud_no_key"
    /\ req' = Moved(q, [q EXCEPT !.silent = TRUE])
    /\ UNCHANGED <<storeVars, keyVars, skillVars, matchVars, config, lastWrite>>

\* The caller of a streaming request goes away while its analysis is
\* pending. The handler registers no listener for it.
Abort(q) ==
    /\ q.endpoint = "stream"
    /\ q.pc \in {"cache_check", "ai_wait"}
    /\ ~q.aborted
    /\ req' = Moved(q, [q EXCEPT !.aborted = TRUE])
    /\ UNCHANGED <<storeVars, keyVars, skillVars, matchVars, config, lastWrite>>

\* The provider call ends with answer and the handler runs on: the analysis
\* returns (or throws), the handler builds what it will save and calls
\* saveAnalysisResult, which builds the document and calls writeFile.
\* processingTime is read by the enhanced endpoint only.
AIAnswer(q, answer, processingTime) ==
    LET returned == analyzeResumeMatchEnhanced(config, answer)
        result   == IF returned # <<>> THEN returned[1] ELSE analyzeResumeMatch
        doc      == dataToSave(ReqUrl, SavedPayload(q.endpoint, result, processingTime),
                               clock)
    IN  /\ q.pc = "ai_wait"
        /\ answer \in Answers(config, q.silent)
        /\ IF q.endpoint = "stream" /\ returned = <<>>
           THEN req' = Moved(q,
                  [q EXCEPT !.pc = "done", !.bypassed = FALSE, !.answer = answer,
                            !.terminal = Append(@, ErrorEvent("Analysis failed"))])
           ELSE req' = Moved(q,
                  [q EXCEPT !.pc = "saving", !.answer = answer,
                            !.analysisResult = <<result>>, !.doc = <<doc>>,
                            !.progress = IF q.endpoint = "stream"
                                         THEN LastStep(ProgressAfterAI(config, answer))
                                         ELSE @])
        /\ UNCHANGED <<storeVars, keyVars, skillVars, matchVars, config, lastWrite>>

\* the response to a fresh analysis: the result event of the streaming
\* endpoint, res.json(successResponse) of the enhanced one
FreshResult(q) ==
    IF q.endpoint = "stream"
    THEN ResultEvent(q.analysisResult[1].analysisMethod,
                     q.analysisResult[1].aiAvailable, FALSE)
    ELSE ResultEvent(q.doc[1].analysisData.analysisMethod,
                     q.doc[1].analysisData.aiEnabled, FALSE)

\* The file after a write of text at offset 0 through a handle of its own:
\* what the file held beyond the end of text stays.
Pwrite(old, text) ==
    [i \in 1..(IF Len(old) > Len(text) THEN Len(old) ELSE Len(text)) |->
        IF i <= Len(text) THEN text[i] ELSE old[i]]

\* the handler has called saveAnalysisResult and writeFile has not opened
\* the file yet
SaveStarted(q) == q.pc = "saving"

\* a handler that opens the cache file while its analysis is still pending
SaveOpenEarly(q, io) ==
    /\ q.pc \in {"ai_wait", "saving"}
    /\ io = "ok"
    /\ store' = WriteFile(store, ReqFilename, <<>>)
    /\ req' = Moved(q, [q EXCEPT !.pc = IF q.pc = "saving" THEN "opened" ELSE @,
                                 !.touched = TRUE])
    /\ UNCHANGED <<clock, ret, keyVars, skillVars, matchVars, config, lastWrite>>

\* fs.promises.writeFile, first half: it opens the file with flag 'w',
\* which creates it or truncates it. If the open fails, writeFile rejects,
\* saveAnalysisResult returns false and the handler sends its response.
SaveOpen(q, io) ==
    /\ SaveStarted(q)
    /\ IF io = "ok"
       THEN /\ store' = WriteFile(store, ReqFilename, <<>>)
            /\ req' = Moved(q, [q EXCEPT !.pc = "opened", !.touched = TRUE])
       ELSE /\ req' = Moved(q, [q EXCEPT !.pc = "done", !.bypassed = FALSE,
                                         !.terminal = Append(@, FreshResult(q))])
            /\ UNCHANGED store
    /\ UNCHANGED <<clock, ret, keyVars, skillVars, matchVars, config, lastWrite>>

\* fs.promises.writeFile, second half: it writes the text through its handle
\* and closes it; saveAnalysisResult returns true and the handler sends its
\* response.
SaveWrite(q) ==
    LET text == JsonStringify(q.doc[1])
    IN  /\ q.pc = "opened"
        /\ store' = WriteFile(store, ReqFilename, Pwrite(store[ReqFilename], text))
        /\ lastWrite' = text
        /\ req' = Moved(q, [q EXCEPT !.pc = "done", !.bypassed = FALSE,
                                     !.terminal = Append(@, FreshResult(q))])
        /\ UNCHANGED <<clock, ret, keyVars, skillVars, matchVars, config>>

AllAnswers == {"ok", "error", "invalid_json", "timeout", "no_api_key"}

\* the steps of the handler of request q
RequestStep(q) ==
    \/ \E forceRerun \in BOOLEAN : CacheCheck(q, forceRerun)
    \/ \E answer \in AllAnswers, processingTime \in ProcessingTimes :
          AIAnswer(q, answer, processingTime)
    \/ \E io \in IoOutcomes : SaveOpen(q, io)
    \/ SaveWrite(q)

ReqNext ==
    \/ \E endpoint \in Endpoints, input \in Inputs : Arrive(endpoint, input)
    \/ \E q \in Requests : \E forceRerun \in BOOLEAN : CacheCheck(q, forceRerun)
    \/ \E q \in Requests : ProviderSilent(q)
    \/ \E q \in Requests : Abort(q)
    \/ \E q \in Requests :
          \E answer \in AllAnswers, processingTime \in ProcessingTimes :
             AIAnswer(q, answer, processingTime)
    \/ \E q \in Requests : \E io \in IoOutcomes : SaveOpen(q, io)
    \/ \E q \in Requests : SaveWrite(q)

ReqSpec == ReqInit /\ [][ReqNext]_vars

(***************************************************************************)
(* Properties of the request flows (ReqSpec).                              *)
(***************************************************************************)
AllDone == \A q \in Requests : q.pc = "done"

\* at least two requests have opened the cache file
TwoWrote ==
    LET writers == {q \in Requests : q.touched}
    IN  Cardinality(writers) >= 2 \/ \E q \in writers : CopiesIn(q, req) >= 2

\* the answers with which the provider call has failed
FailedAnswers == {"error", "invalid_json", "timeout"}

\* C5. Last writer wins: once two concurrent requests for the same key that
\* both missed the cache, both ran the analysis and both wrote have
\* finished, the store holds one record under the key and it is, as a
\* whole, the record of the write that completed last.
C5_LastWriterWins ==
    (AllDone /\ TwoWrote) =>
        /\ DOMAIN store = {ReqFilename}
        /\ store[ReqFilename] = lastWrite
        /\ loadAnalysisResult(store, ReqUrl, ReqResumeInfo, ReqDescription) # <<>>

\* C6 as stated. No partial cache write: a streaming request writes to the
\* store only after its analysis has returned a complete result, and one
\* that was aborted or has failed before that leaves the store unchanged.
C6_AbortedLeavesStore ==
    \A q \in Requests :
        q.endpoint = "stream" =>
            /\ q.touched => q.analysisResult # <<>>
            /\ (q.aborted \/ (q.pc = "done" /\ q.analysisResult = <<>>)) => ~q.touched

\* C6, amended. A streaming request opens the cache file only after its
\* analysis has returned a complete result, so one that fails before that
\* leaves the store unchanged; the caller's abort changes nothing for the
\* handler, which can take the same steps as if the caller had stayed.
C6_NoPartialWrite ==
    \A q \in Requests :
        q.endpoint = "stream" =>
            /\ q.touched => q.analysisResult # <<>>
            /\ (q.pc = "done" /\ q.analysisResult = <<>>) => ~q.touched
            /\ (q.aborted /\ q.pc # "done") =>
                  (ENABLED RequestStep(q)
                      <=> ENABLED RequestStep([q EXCEPT !.aborted = FALSE]))

\* an aborted streaming request has run to its end and its complete record
\* is in the store
C6_Witness ==
    \E q \in Requests :
        /\ q.endpoint = "stream" /\ q.aborted /\ q.pc = "done" /\ q.touched
        /\ ReqFilename \in DOMAIN store
        /\ store[ReqFilename] = JsonStringify(q.doc[1])

C8_Provenance ==
    \A q \in Requests :
        (q.pc = "done" /\ q.analysisResult # <<>> /\ q.answer # "ok") =>
            /\ q.terminal[Len(q.terminal)].analysisMethod # "ai_enhanced"
            /\ ~q.analysisResult[1].aiAvailable

\* C9. Bounded wait: a request whose provider has gone silent is never left
\* without a step to take, so it cannot wait forever.
C9_BoundedWait ==
    \A q \in Requests :
        (q.silent /\ q.pc # "done") => ENABLED RequestStep(q)

(***************************************************************************)
(* DirSpec: the DataManager API with every way a call can fail, and the    *)
(* add-skill handler of server.js, one call at a time. A write that fails  *)
(* after the open leaves an empty file, which JSON.parse rejects.          *)
(* ListSpec: the listings of the data directory and the sweep delete of    *)
(* server.js, one call at a time, while the clock advances.                *)
(***************************************************************************)
DirUrls == {Url1, BadUrl}
DirResumeInfos == {NoResumeInfo, ResumeInfo("r1.pdf", 100)}
DirDescriptions == {"", "desc v1"}
DirIoOutcomes == {"ok", "EACCES", "ENOSPC"}

\* the orders in which readdir can return the names of the directory
Readdir(st) ==
    {files \in [1..Cardinality(DOMAIN st) -> DOMAIN st] :
        \A i, j \in DOMAIN files : files[i] = files[j] => i = j}

\* the resumeInfo argument of deleteAnalysis(url, analysis.resumeInfo):
\* undefined takes the default {}
ResumeInfoArg(o) == IF o = <<>> THEN NoResumeInfo ELSE o[1]

\* the loop of DELETE /api/delete-analysis over allAnalyses
RECURSIVE DeleteAll(_, _, _)
DeleteAll(st, url, allAnalyses) ==
    IF allAnalyses = <<>> THEN [store |-> st, deletedCount |-> 0]
    ELSE LET done == deleteAnalysisFrom(st, url, ResumeInfoArg(allAnalyses[1].resumeInfo))
             rest == DeleteAll(done.store, url, Tail(allAnalyses))
         IN  [store        |-> rest.store,
              deletedCount |-> rest.deletedCount + (IF done.deleted THEN 1 ELSE 0)]

\* skill.trim().toLowerCase() of the skills of the requests
AddSkillInputs == {"", "Rust", " rust ", "Go"}
SkillName(skill) ==
    CASE skill = "Rust"   -> "rust"
      [] skill = " rust " -> "rust"
      [] skill = "Go"     -> "go"
      [] OTHER            -> ""

\* jobUrl of POST /api/add-skill: "" where the body has none
JobUrls == {"", Url1}

DirSave ==
    \E url \in DirUrls, analysisData \in Payloads, resumeInfo \in DirResumeInfos,
       jobDescription \in DirDescriptions, io \in DirIoOutcomes :
        saveAnalysisResult(url, analysisData, resumeInfo, jobDescription, io)

DirLoad ==
    \E url \in DirUrls, resumeInfo \in DirResumeInfos, jobDescription \in DirDescriptions :
        LoadCall(url, resumeInfo, jobDescription)

DirDelete ==
    \E url \in DirUrls, resumeInfo \in DirResumeInfos : deleteAnalysis(url, resumeInfo)

\* dataManager.checkAnalysisExists(url, resumeInfo)
ExistsCall(url, resumeInfo) ==
    LET data == checkAnalysisExists(store, url, resumeInfo)
    IN  /\ ret' = Call("exists", url, resumeInfo, "", <<>>, data # <<>>, data)
        /\ UNCHANGED <<store, clock>>

\* dataManager.findAllAnalysesForJob(url)
ListForJobCall(url, files) ==
    /\ ret' = Call("listForJob", url, NoResumeInfo, "", <<>>, TRUE,
                   findAllAnalysesForJob(store, url, files))
    /\ UNCHANGED <<store, clock>>

\* dataManager.listAllAnalyses()
ListAllCall(files) ==
    /\ ret' = Call("listAll", "", NoResumeInfo, "", <<>>, TRUE, listAllAnalyses(store, files))
    /\ UNCHANGED <<store, clock>>

\* DELETE /api/delete-analysis with a url and no resumeInfo: ok is deleted
\* and data is deletedCount of the response
SweepDelete(url, files) ==
    LET allAnalyses == findAllAnalysesForJob(store, url, files)
        done        == DeleteAll(store, url, allAnalyses)
    IN  /\ store' = done.store
        /\ ret' = Call("sweep", url, NoResumeInfo, "", <<>>, done.deletedCount > 0,
                       <<done.deletedCount>>)
        /\ UNCHANGED clock

\* POST /api/add-skill: data is the body of the response, <<>> for the 400
AddSkill(skill, jobUrl) ==
    LET skillName     == SkillName(skill)
        alreadyExists == \E i \in DOMAIN addedSkills.skills :
                             addedSkills.skills[i] = skillName
        done          == deleteAnalysisFrom(store, jobUrl, NoResumeInfo)
    IN  IF skillName = ""
        THEN /\ ret' = Call("addSkill", jobUrl, NoResumeInfo, "", <<>>, FALSE, <<>>)
             /\ UNCHANGED <<store, clock, skillVars>>
        ELSE IF alreadyExists
        THEN /\ ret' = Call("addSkill", jobUrl, NoResumeInfo, "", <<>>, TRUE,
                            <<[skill |-> skillName, alreadyExists |-> TRUE,
                               cacheCleared |-> FALSE]>>)
             /\ UNCHANGED <<store, clock, skillVars>>
        ELSE /\ addedSkills' = [addedSkills EXCEPT !.skills = Append(@, skillName),
                                                   !.addedAt = Append(@, clock)]
             /\ UNCHANGED adders
             /\ store' = IF jobUrl # "" THEN done.store ELSE store
             /\ ret' = Call("addSkill", jobUrl, NoResumeInfo, "", <<>>, TRUE,
                            <<[skill |-> skillName, alreadyExists |-> FALSE,
                               cacheCleared |-> jobUrl # ""]>>)
             /\ UNCHANGED clock

DirNext ==
    \/ DirSave /\ UNCHANGED <<keyVars, reqVars, skillVars, matchVars>>
    \/ DirLoad /\ UNCHANGED <<keyVars, reqVars, skillVars, matchVars>>
    \/ DirDelete /\ UNCHANGED <<keyVars, reqVars, skillVars, matchVars>>
    \/ \E url \in DirUrls, resumeInfo \in DirResumeInfos :
           ExistsCall(url, resumeInfo) /\ UNCHANGED <<keyVars, reqVars, skillVars, matchVars>>
    \/ \E skill \in AddSkillInputs, jobUrl \in JobUrls :
           AddSkill(skill, jobUrl) /\ UNCHANGED <<keyVars, reqVars, matchVars>>

DirSpec == Init /\ [][DirNext]_vars

\* the keys the records of ListSpec are saved under
ListUrls == {Url1, Url2}
ListKeys ==
    {[url |-> Url1, resumeInfo |-> NoResumeInfo, jobDescription |-> ""],
     [url |-> Url1, resumeInfo |-> ResumeInfo("r1.pdf", 100), jobDescription |-> "desc v1"],
     [url |-> Url2, resumeInfo |-> NoResumeInfo, jobDescription |-> ""]}
ListIoOutcomes == {"ok", "ENOSPC"}

Tick ==
    /\ clock < MaxClock
    /\ clock' = clock + 1
    /\ UNCHANGED <<store, ret>>

ListSave ==
    \E key \in ListKeys, analysisData \in Payloads, io \in ListIoOutcomes :
        saveAnalysisResult(key.url, analysisData, key.resumeInfo, key.jobDescription, io)

ListDelete ==
    \E key \in ListKeys : deleteAnalysis(key.url, key.resumeInfo)

ListNext ==
    \/ Tick /\ UNCHANGED <<keyVars, reqVars, skillVars, matchVars>>
    \/ ListSave /\ UNCHANGED <<keyVars, reqVars, skillVars, matchVars>>
    \/ ListDelete /\ UNCHANGED <<keyVars, reqVars, skillVars, matchVars>>
    \/ \E url \in ListUrls, files \in Readdir(store) :
           ListForJobCall(url, files) /\ UNCHANGED <<keyVars, reqVars, skillVars, matchVars>>
    \/ \E files \in Readdir(store) :
           ListAllCall(files) /\ UNCHANGED <<keyVars, reqVars, skillVars, matchVars>>
    \/ \E url \in ListUrls, files \in Readdir(store) :
           SweepDelete(url, files) /\ UNCHANGED <<keyVars, reqVars, skillVars, matchVars>>

ListSpec == Init /\ [][ListNext]_vars

(***************************************************************************)
(* Properties of the listings and of the sweep delete (ListSpec).          *)
(***************************************************************************)
\* the names in the directory st that start with the prefix of url
FilesOfJob(st, url) == {file \in DOMAIN st : StartsWithBasePattern(file, url)}

\* C11. sweep delete by job URL: a DELETE /api/delete-analysis with a url and
\* no resumeInfo leaves no record under the prefix of that url, and its
\* deletedCount is the number of records that were under the prefix before.
C11_SweepDelete ==
    [][\A url \in ListUrls, files \in Readdir(store) :
          ret'.op = "sweep" /\ SweepDelete(url, files) =>
              /\ FilesOfJob(store', url) = {}
              /\ ret'.data = <<Cardinality(FilesOfJob(store, url))>>]_vars

\* the stored files that are records saved under url, by the url their
\* document carries
RecordsOf(st, url) ==
    {file \in DOMAIN st : JsonParse(st[file]) # <<>> /\ JsonParse(st[file])[1].url = url}

\* the stored files of any url that JSON.parse rejects
Corrupt(st) == {file \in DOMAIN st : JsonParse(st[file]) = <<>>}

NewestFirst(entries) ==
    \A i \in 1..(Len(entries) - 1) :
        DateParse(entries[i].timestamp) >= DateParse(entries[i + 1].timestamp)

\* entries has one entry for each file of files and for no other file
OnePerFile(entries, files) ==
    /\ Len(entries) = Cardinality(files)
    /\ {entries[i].filename : i \in DOMAIN entries} = files

C14_ListAll ==
    \A files \in Readdir(store) :
        LET entries == listAllAnalyses(store, files)
        IN  /\ OnePerFile(entries, DOMAIN store \ Corrupt(store))
            /\ \A i \in DOMAIN entries :
                   LET data == JsonParse(store[entries[i].filename])[1]
                   IN  entries[i].url = data.url /\ entries[i].timestamp = data.timestamp
            /\ NewestFirst(entries)

\* listAllAnalyses returned two entries, the newer first, from a directory
\* that also holds a file that does not parse
C14_Witness ==
    /\ ret.op = "listAll"
    /\ Corrupt(store) # {}
    /\ Len(ret.data) = 2
    /\ DateParse(ret.data[1].timestamp) > DateParse(ret.data[2].timestamp)
    /\ \E files \in Readdir(store) : ret.data = listAllAnalyses(store, files)

\* C15. the per-job listing tolerates corrupt records: findAllAnalysesForJob
\* skips a file under the prefix of the url that does not parse, one file
\* at a time, and still returns an entry for every other record of the url.
C15_ListForJobTolerant ==
    \A url \in ListUrls, files \in Readdir(store) :
        OnePerFile(findAllAnalysesForJob(store, url, files),
                   FilesOfJob(store, url) \ Corrupt(store))

(***************************************************************************)
(* Properties of the DataManager API and of add-skill (DirSpec).           *)
(***************************************************************************)
\* C12. exists contract: right after a successful save(url, payload, id,
\* description), checkAnalysisExists(url, id) returns metadata and not null;
\* and it returns null for every (url, id) no record is stored for.
C12_ExistsContract ==
    /\ SavedOk => checkAnalysisExists(store, ret.url, ret.resumeInfo) # <<>>
    /\ \A url \in DirUrls \ {BadUrl}, resumeInfo \in DirResumeInfos :
           (\A d \in DirDescriptions :
                ~existsSync(store, generateFilename(url, resumeInfo, d)))
               => checkAnalysisExists(store, url, resumeInfo) = <<>>

\* C16. store errors become values: a save whose url does not parse or whose
\* write fails returns false and leaves every record that was in the store
\* as it was; a load returns null on a miss and for a url that does not
\* parse; a delete of such a url returns false.
C16_ErrorsAreValues ==
    [][/\ \A url \in DirUrls, analysisData \in Payloads, resumeInfo \in DirResumeInfos,
             jobDescription \in DirDescriptions, io \in DirIoOutcomes :
              /\ ret'.op = "save"
              /\ saveAnalysisResult(url, analysisData, resumeInfo, jobDescription, io)
              /\ io # "ok" \/ url = BadUrl
              => /\ ~ret'.ok
                 /\ \A file \in DOMAIN store :
                        existsSync(store', file) /\ store'[file] = store[file]
       /\ ret'.op = "load" /\ ret'.data # <<>>
              => /\ ret'.url # BadUrl
                 /\ existsSync(store,
                               generateFilename(ret'.url, ret'.resumeInfo, ret'.jobDescription))
       /\ ret'.op = "delete" /\ ret'.url = BadUrl => ~ret'.ok /\ store' = store]_vars

\* C18. adding a skill clears the cached analysis: once POST /api/add-skill
\* with a new skill and a jobUrl has answered cacheCleared true, no record of
\* that job url is stored: a load for it returns null under every resume
\* identity and description.
C18_AddSkillClearsCache ==
    ret.op = "addSkill" /\ ret.ok /\ ret.data[1].cacheCleared =>
        /\ FilesOfJob(store, ret.url) = {}
        /\ \A resumeInfo \in DirResumeInfos, jobDescription \in DirDescriptions :
               loadAnalysisResult(store, ret.url, resumeInfo, jobDescription) = <<>>

(***************************************************************************)
(* Forced re-analysis (ReqSpec).                                           *)
(***************************************************************************)
\* C17. forced re-analysis overwrites: a request with forceRerun never gets
\* the cached record and goes on to a fresh analysis; and when a request
\* that skipped a stored record answers with its fresh result, the record
\* under its key is the document of that result, which a later request
\* without forceRerun then loads.
C17_ForcedOverwrites ==
    [][\A q \in Requests :
          /\ CacheCheck(q, TRUE) =>
                 \E q2 \in BagToSet(req') : q2.pc = "ai_wait" /\ req' = Moved(q, q2)
          /\ q.bypassed /\ (SaveWrite(q) \/ \E io \in IoOutcomes \ {"ok"} : SaveOpen(q, io))
                 => loadAnalysisResult(store', ReqUrl, ReqResumeInfo, ReqDescription)
                        = q.doc]_vars

(***************************************************************************)
(* matchingEngine.js: the comparison of resume skills with job skills.     *)
(* A string is the sequence of its characters. A value that is not a       *)
(* string is a sequence of one element that is no character, so that no    *)
(* string equals it.                                                       *)
(***************************************************************************)
Null == <<"null">>
ObjectFunction == <<"function Object()">>
ObjectPrototype == <<"[Object: null prototype]">>
IsString(v) == v \notin {Null, ObjectFunction, ObjectPrototype}

UpperCase ==
    <<"A", "B", "C", "D", "E", "F", "G", "H", "I", "J", "K", "L", "M", "N", "O", "P", "Q", "R", "S", "T", "U", "V", "W", "X", "Y", "Z">>
LowerCase ==
    <<"a", "b", "c", "d", "e", "f", "g", "h", "i", "j", "k", "l", "m", "n", "o", "p", "q", "r", "s", "t", "u", "v", "w", "x", "y", "z">>
toLowerCaseChar(c) ==
    IF \E i \in DOMAIN UpperCase : UpperCase[i] = c
    THEN LowerCase[CHOOSE i \in DOMAIN UpperCase : UpperCase[i] = c]
    ELSE c
toLowerCase(str) == [i \in 1..Len(str) |-> toLowerCaseChar(str[i])]

\* \s of a regular expression, and what trim() strips
IsWhiteSpace(c) == c \in {" ", "\t", "\n", "\r"}
\* [\s\-._]
IsSeparator(c) == IsWhiteSpace(c) \/ c \in {"-", ".", "_"}

MinOf(S) == CHOOSE x \in S : \A y \in S : x <= y
MaxOf(S) == CHOOSE x \in S : \A y \in S : x >= y

trim(str) ==
    LET inner == {i \in 1..Len(str) : ~IsWhiteSpace(str[i])}
    IN  IF inner = {} THEN <<>> ELSE SubSeq(str, MinOf(inner), MaxOf(inner))

\* str.includes(part)
includes(str, part) ==
    \E i \in 0..(Len(str) - Len(part)) : SubSeq(str, i + 1, i + Len(part)) = part

\* The non-empty strings of str.split(/[\s\-._]+/). The empty strings that
\* split returns for a separator at either end never pass a test on length.
Words(str) ==
    {SubSeq(str, i, j) : <<i, j>> \in
        {w \in (1..Len(str)) \X (1..Len(str)) :
            /\ w[1] <= w[2]
            /\ \A k \in w[1]..w[2] : ~IsSeparator(str[k])
            /\ w[1] = 1 \/ IsSeparator(str[w[1] - 1])
            /\ w[2] = Len(str) \/ IsSeparator(str[w[2] + 1])}}

\* matrix[i] of levenshteinDistance as the sequence of matrix[i][0..j], from
\* the row above it. A cell is the cell above and to the left of it where the
\* two characters are equal, and else one more than the least of that cell,
\* the cell above and the cell to its left; so it is the least, over the cells
\* of the row from the last one that does not look to its left, of what the
\* cell gets from the row above plus the steps from there.
MatrixRow(str1, str2, above, i) ==
    LET Equal(j)     == j > 0 /\ str2[i] = str1[j]
        FromAbove(j) == IF j = 0 THEN i
                        ELSE IF Equal(j) THEN above[j]
                        ELSE MinOf({above[j] + 1, above[j + 1] + 1})
        Start(j)     == MaxOf({k \in 0..j : k = 0 \/ Equal(k)})
        Cell(j)      == MinOf({FromAbove(k) + (j - k) : k \in Start(j)..j})
    IN  SubSeq([n \in 1..(Len(str1) + 1) |-> Cell(n - 1)], 1, Len(str1) + 1)

RECURSIVE Matrix(_, _, _)
Matrix(str1, str2, i) ==
    IF i = 0 THEN [j \in 1..(Len(str1) + 1) |-> j - 1]
    ELSE MatrixRow(str1, str2, Matrix(str1, str2, i - 1), i)

levenshteinDistance(str1, str2) == Matrix(str1, str2, Len(str2))[Len(str1) + 1]

\* a skill in lower case that is not trimmed
LowerCaseUntrimmed(skill) == toLowerCase(skill)

\* skill.toLowerCase().trim()
LowerCaseTrimmed(skill) == trim(toLowerCase(skill))

\* skillsMatch of two strings. (maxLength - distance) / maxLength > 0.85
\* compares a quotient of two small integers with the double nearest to
\* 0.85, which comes out as the comparison of the exact fractions.
skillsMatch(skill1, skill2, fuzzyMatching) ==
    LET s1        == LowerCaseTrimmed(skill1)
        s2        == LowerCaseTrimmed(skill2)
        distance  == levenshteinDistance(s1, s2)
        maxLength == IF Len(s1) > Len(s2) THEN Len(s1) ELSE Len(s2)
    IN  IF s1 = s2 THEN TRUE
        ELSE IF ~fuzzyMatching THEN FALSE
        ELSE IF includes(s1, s2) \/ includes(s2, s1) THEN TRUE
        ELSE IF \E word1 \in Words(s1), word2 \in Words(s2) :
                    Len(word1) > 2 /\ Len(word2) > 2 /\ word1 = word2 THEN TRUE
        ELSE IF Len(s1) > 4 /\ Len(s2) > 4
             THEN 100 * (maxLength - distance) > 85 * maxLength
        ELSE FALSE

\* skill1.toLowerCase() or skill2.toLowerCase() throws TypeError
skillsMatchThrows(skill1, skill2) == ~IsString(skill1) \/ ~IsString(skill2)

\* the own properties of the object literal synonymMap
synonymMap ==
       (<<"j", "s">> :> <<"j", "a", "v", "a", "s", "c", "r", "i", "p", "t">>)
    @@ (<<"t", "s">> :> <<"t", "y", "p", "e", "s", "c", "r", "i", "p", "t">>)
    @@ (<<"r", "e", "a", "c", "t", "j", "s">> :> <<"r", "e", "a", "c", "t">>)
    @@ (<<"r", "e", "a", "c", "t", ".", "j", "s">> :> <<"r", "e", "a", "c", "t">>)
    @@ (<<"v", "u", "e", "j", "s">> :> <<"v", "u", "e", ".", "j", "s">>)
    @@ (<<"a", "n", "g", "u", "l", "a", "r", ".", "j", "s">> :> <<"a", "n", "g", "u", "l", "a", "r">>)
    @@ (<<"n", "o", "d", "e", "j", "s">> :> <<"n", "o", "d", "e", ".", "j", "s">>)
    @@ (<<"n", "o", "d", "e">> :> <<"n", "o", "d", "e", ".", "j", "s">>)
    @@ (<<"p", "o", "s", "t", "g", "r", "e", "s">> :> <<"p", "o", "s", "t", "g", "r", "e", "s", "q", "l">>)
    @@ (<<"m", "o", "n", "g", "o">> :> <<"m", "o", "n", "g", "o", "d", "b">>)
    @@ (<<"k", "8", "s">> :> <<"k", "u", "b", "e", "r", "n", "e", "t", "e", "s">>)
    @@ (<<"d", "o", "c", "k", "e", "r", " ", "c", "o", "n", "t", "a", "i", "n", "e", "r", "s">> :> <<"d", "o", "c", "k", "e", "r">>)
    @@ (<<"c", "o", "n", "t", "a", "i", "n", "e", "r", "i", "z", "a", "t", "i", "o", "n">> :> <<"d", "o", "c", "k", "e", "r">>)
    @@ (<<"a", "w", "s", " ", "c", "l", "o", "u", "d">> :> <<"a", "w", "s">>)
    @@ (<<"a", "m", "a", "z", "o", "n", " ", "w", "e", "b", " ", "s", "e", "r", "v", "i", "c", "e", "s">> :> <<"a", "w", "s">>)
    @@ (<<"g", "o", "o", "g", "l", "e", " ", "c", "l", "o", "u", "d", " ", "p", "l", "a", "t", "f", "o", "r", "m">> :> <<"g", "o", "o", "g", "l", "e", " ", "c", "l", "o", "u", "d">>)
    @@ (<<"g", "c", "p">> :> <<"g", "o", "o", "g", "l", "e", " ", "c", "l", "o", "u", "d">>)
    @@ (<<"m", "i", "c", "r", "o", "s", "o", "f", "t", " ", "a", "z", "u", "r", "e">> :> <<"a", "z", "u", "r", "e">>)
    @@ (<<"m", "l">> :> <<"m", "a", "c", "h", "i", "n", "e", " ", "l", "e", "a", "r", "n", "i", "n", "g">>)
    @@ (<<"a", "i">> :> <<"a", "r", "t", "i", "f", "i", "c", "i", "a", "l", " ", "i", "n", "t", "e", "l", "l", "i", "g", "e", "n", "c", "e">>)
    @@ (<<"d", "e", "v", "o", "p", "s">> :> <<"d", "e", "v", " ", "o", "p", "s">>)
    @@ (<<"c", "i", "/", "c", "d">> :> <<"c", "o", "n", "t", "i", "n", "u", "o", "u", "s", " ", "i", "n", "t", "e", "g", "r", "a", "t", "i", "o", "n">>)
    @@ (<<"r", "e", "s", "t", " ", "a", "p", "i">> :> <<"r", "e", "s", "t">>)
    @@ (<<"r", "e", "s", "t", "f", "u", "l">> :> <<"r", "e", "s", "t">>)
    @@ (<<"f", "r", "o", "n", "t", "e", "n", "d">> :> <<"f", "r", "o", "n", "t", "-", "e", "n", "d">>)
    @@ (<<"b", "a", "c", "k", "e", "n", "d">> :> <<"b", "a", "c", "k", "-", "e", "n", "d">>)
    @@ (<<"f", "u", "l", "l", "s", "t", "a", "c", "k">> :> <<"f", "u", "l", "l", "-", "s", "t", "a", "c", "k">>)
    @@ (<<"f", "u", "l", "l", " ", "s", "t", "a", "c", "k">> :> <<"f", "u", "l", "l", "-", "s", "t", "a", "c", "k">>)
\* synonymMap[skill.toLowerCase()] || skill: the lookup also finds what the
\* object inherits from Object.prototype
applySynonyms(skill) ==
    LET key == toLowerCase(skill)
    IN  IF key \in DOMAIN synonymMap THEN synonymMap[key]
        ELSE IF key = <<"c", "o", "n", "s", "t", "r", "u", "c", "t", "o", "r">>
             THEN ObjectFunction
        ELSE IF key = <<"_", "_", "p", "r", "o", "t", "o", "_", "_">>
             THEN ObjectPrototype
        ELSE skill

\* Array.from(new Set(array))
Unique(array) ==
    LET first  == {i \in DOMAIN array : \A j \in 1..(i - 1) : array[j] # array[i]}
        Nth(k) == CHOOSE i \in first : Cardinality({j \in first : j < i}) = k - 1
    IN  [k \in 1..Cardinality(first) |-> array[Nth(k)]]

\* normalizeSkills(skills, {caseSensitive, synonyms}): skills is <<array>>,
\* or <<>> for a value that is no array
normalizeSkills(skills, caseSensitive, synonyms) ==
    IF skills = <<>> THEN <<>>
    ELSE LET strings  == SelectSeq(skills[1], LAMBDA skill : IsString(skill) /\ skill # <<>>)
             trimmed  == [i \in 1..Len(strings) |-> trim(strings[i])]
             nonEmpty == SelectSeq(trimmed, LAMBDA skill : Len(skill) > 0)
             cased    == IF caseSensitive THEN nonEmpty
                         ELSE [i \in 1..Len(nonEmpty) |-> toLowerCase(nonEmpty[i])]
             mapped   == IF synonyms
                         THEN [i \in 1..Len(cased) |-> applySynonyms(cased[i])]
                         ELSE cased
         IN  Unique(mapped)

\* one call skillsMatch(skill1, skill2, fuzzyMatching)
Outcome(skill1, skill2, fuzzyMatching) ==
    IF skillsMatchThrows(skill1, skill2) THEN "throws"
    ELSE IF skillsMatch(skill1, skill2, fuzzyMatching) THEN "match"
    ELSE "none"

\* The inner loop of findMatchedSkills for one job skill, and that of
\* findExtraSkills for one resume skill: the calls of skillsMatch in their
\* order until one returns true or throws.
FirstHit(outcomes) ==
    LET hits == {i \in DOMAIN outcomes : outcomes[i] # "none"}
    IN  IF hits = {} THEN "none" ELSE outcomes[MinOf(hits)]

MatchOfJobSkill(resumeSkills, jobSkill, fuzzyMatching) ==
    FirstHit([i \in DOMAIN resumeSkills |->
                 Outcome(resumeSkills[i], jobSkill, fuzzyMatching)])

MatchOfResumeSkill(resumeSkill, jobSkills, fuzzyMatching) ==
    FirstHit([j \in DOMAIN jobSkills |->
                 Outcome(resumeSkill, jobSkills[j], fuzzyMatching)])

\* findMatchedSkills: <<matches>>, or <<>> where it throws
findMatchedSkills(resumeSkills, jobSkills, fuzzyMatching) ==
    IF \E j \in DOMAIN jobSkills :
           MatchOfJobSkill(resumeSkills, jobSkills[j], fuzzyMatching) = "throws"
    THEN <<>>
    ELSE <<SelectSeq(jobSkills, LAMBDA jobSkill :
               MatchOfJobSkill(resumeSkills, jobSkill, fuzzyMatching) = "match")>>

findMissingSkills(jobSkills, matchedSkills) ==
    SelectSeq(jobSkills, LAMBDA skill : \A i \in DOMAIN matchedSkills : matchedSkills[i] # skill)

\* findExtraSkills: <<extras>>, or <<>> where it throws
findExtraSkills(resumeSkills, jobSkills, fuzzyMatching) ==
    IF \E i \in DOMAIN resumeSkills :
           MatchOfResumeSkill(resumeSkills[i], jobSkills, fuzzyMatching) = "throws"
    THEN <<>>
    ELSE <<SelectSeq(resumeSkills, LAMBDA resumeSkill :
               MatchOfResumeSkill(resumeSkill, jobSkills, fuzzyMatching) = "none")>>

(***************************************************************************)
(* The arithmetic of calculateMatchPercentage. A JavaScript number is an   *)
(* IEEE 754 double: a positive one is mant * 2^exp, with mant a natural    *)
(* number of 53 bits, written as the sequence of its bits from the highest *)
(* one, which is 1. Every operation rounds its exact result to the nearest *)
(* such number, and to the one with an even mant when two are as near.     *)
(***************************************************************************)
\* the bits of n < 2^width, and the natural number a sequence of bits is
NatToBits(n, width) == [i \in 1..width |-> (n \div 2^(width - i)) % 2]

RECURSIVE BitsToNat(_)
BitsToNat(bits) ==
    IF bits = <<>> THEN 0
    ELSE IF Len(bits) = 1 THEN bits[1]
    ELSE LET high == Len(bits) \div 2
         IN  BitsToNat(SubSeq(bits, 1, high)) * 2^(Len(bits) - high)
                 + BitsToNat(SubSeq(bits, high + 1, Len(bits)))

\* the number of bits of n < 2^30 from its highest 1
Width(n) == CHOOSE w \in 0..30 : n < 2^w /\ (w = 0 \/ n >= 2^(w - 1))

\* 2^k modulo n
RECURSIVE Pow2Mod(_, _)
Pow2Mod(k, n) ==
    IF k = 0 THEN 1 % n
    ELSE LET h == Pow2Mod(k \div 2, n)
         IN  (h * h * (IF k % 2 = 1 THEN 2 ELSE 1)) % n

\* the first k bits of r / n behind the binary point, for r < n
QuotientBits(r, n, k) ==
    [i \in 1..k |-> IF 2 * ((r * Pow2Mod(i - 1, n)) % n) >= n THEN 1 ELSE 0]

\* what is left of r / n behind those k bits, times n * 2^k
Remainder(r, n, k) == (r * Pow2Mod(k, n)) % n

\* bits + 1
Increment(bits) ==
    LET zeros == {i \in DOMAIN bits : bits[i] = 0}
    IN  IF zeros = {} THEN <<1>> \o [i \in DOMAIN bits |-> 0]
        ELSE [i \in DOMAIN bits |->
                 IF i < MaxOf(zeros) THEN bits[i] ELSE IF i = MaxOf(zeros) THEN 1 ELSE 0]

MantissaBits == 53

\* The double nearest to bits * 2^exp, where bits starts with 1 and has
\* more than MantissaBits bits, and inexact says that the exact value is
\* larger than bits * 2^exp by less than 2^exp.
RoundToDouble(bits, exp, inexact) ==
    LET kept    == SubSeq(bits, 1, MantissaBits)
        half    == bits[MantissaBits + 1] = 1
        beyond  == inexact \/ \E i \in (MantissaBits + 2)..Len(bits) : bits[i] = 1
        up      == half /\ (beyond \/ kept[MantissaBits] = 1)
        rounded == IF up THEN Increment(kept) ELSE kept
        dropped == Len(bits) - MantissaBits
    IN  IF Len(rounded) > MantissaBits
        THEN [mant |-> SubSeq(rounded, 1, MantissaBits), exp |-> exp + dropped + 1]
        ELSE [mant |-> rounded, exp |-> exp + dropped]

\* the bits of the quotient that are computed behind the binary point
QuotientPlaces == 64

\* m / n for naturals m > 0 and n > 0 with m / n >= 2^-9
DoubleDivide(m, n) ==
    LET whole  == NatToBits(m \div n, Width(m \div n))
        all    == whole \o QuotientBits(m % n, n, QuotientPlaces)
        first  == MinOf({i \in DOMAIN all : all[i] = 1})
        last   == first + MantissaBits
        beyond == \/ \E i \in (last + 1)..Len(all) : all[i] = 1
                  \/ Remainder(m % n, n, QuotientPlaces) # 0
    IN  RoundToDouble(SubSeq(all, first, last), Len(whole) - last, beyond)

\* the product is computed in three parts of LimbBits bits of x.mant
LimbBits == 18

\* x * 100
DoubleTimes100(x) ==
    LET mant    == <<0>> \o x.mant
        low     == 100 * BitsToNat(SubSeq(mant, 2 * LimbBits + 1, 3 * LimbBits))
        middle  == 100 * BitsToNat(SubSeq(mant, LimbBits + 1, 2 * LimbBits))
                       + low \div 2^LimbBits
        high    == 100 * BitsToNat(SubSeq(mant, 1, LimbBits)) + middle \div 2^LimbBits
        product == NatToBits(high, Width(high))
                       \o NatToBits(middle % 2^LimbBits, LimbBits)
                       \o NatToBits(low % 2^LimbBits, LimbBits)
    IN  RoundToDouble(product, x.exp, FALSE)

\* Math.round(x) for a double 0 < x < 2^30: the integer nearest to x, and the
\* larger one when two are as near
MathRound(x) ==
    LET places == Len(x.mant) + x.exp
    IN  IF places < 0 THEN 0
        ELSE BitsToNat(SubSeq(x.mant, 1, places)) + x.mant[places + 1]

\* Math.round((totalMatched / totalRequired) * 100)
calculateMatchPercentage(totalRequired, totalMatched) ==
    IF totalRequired = 0 THEN 100
    ELSE IF totalMatched = 0 THEN 0
    ELSE MathRound(DoubleTimes100(DoubleDivide(totalMatched, totalRequired)))

\* the options of compareSkills when the caller passes none
DefaultOptions == [caseSensitive |-> FALSE, fuzzyMatching |-> TRUE, synonyms |-> TRUE]

\* what compareSkills gives when one of its calls throws TypeError
Thrown ==
    [threw |-> TRUE, matchedSkills |-> {}, missingSkills |-> {}, extraSkills |-> {},
     matchPercentage |-> 0, totalJobSkills |-> 0, totalResumeSkills |-> 0,
     totalMatches |-> 0]

SetOf(array) == {array[i] : i \in DOMAIN array}

\* compareSkills(resumeSkills, jobSkills, options). The three arrays of the
\* result, which are sorted and have no duplicates, are the sets of their
\* elements here.
compareSkills(resumeSkills, jobSkills, options) ==
    LET normalizedResumeSkills ==
            normalizeSkills(resumeSkills, options.caseSensitive, options.synonyms)
        normalizedJobSkills ==
            normalizeSkills(jobSkills, options.caseSensitive, options.synonyms)
        matchedSkills ==
            findMatchedSkills(normalizedResumeSkills, normalizedJobSkills,
                              options.fuzzyMatching)
        extraSkills ==
            findExtraSkills(normalizedResumeSkills, normalizedJobSkills,
                            options.fuzzyMatching)
    IN  IF matchedSkills = <<>> \/ extraSkills = <<>> THEN Thrown
        ELSE [threw             |-> FALSE,
              matchedSkills     |-> SetOf(matchedSkills[1]),
              missingSkills     |-> SetOf(findMissingSkills(normalizedJobSkills,
                                                            matchedSkills[1])),
              extraSkills       |-> SetOf(extraSkills[1]),
              matchPercentage   |-> calculateMatchPercentage(Len(normalizedJobSkills),
                                                             Len(matchedSkills[1])),
              totalJobSkills    |-> Len(normalizedJobSkills),
              totalResumeSkills |-> Len(normalizedResumeSkills),
              totalMatches      |-> Len(matchedSkills[1])]

(***************************************************************************)
(* MatchSpec: compareSkills applied to a resume skill list and a job skill *)
(* list.                                                                   *)
(***************************************************************************)
MaxSkills == 2
MaxRequired == 40

\* the skills of the short lists
RawSkills ==
    {<<" ", "R", "e", "a", "c", "t", " ">>,
     <<"j", "s">>,
     <<"J", "a", "v", "a">>,
     <<"c", "o", "n", "s", "t", "r", "u", "c", "t", "o", "r">>,
     Null}

\* the arrays of at most n of them, each as <<array>>
Arrays(n) == UNION {{<<array>> : array \in [1..k -> RawSkills]} : k \in 0..n}

\* a job skill list of n skills of which the first m contain the one resume
\* skill, and no two of which are equal
Pattern == <<"z", "q">>
Other == <<"x">>
Numbered(prefix, i) == prefix \o <<Digit(i \div 10), Digit(i % 10)>>
JobSkillsOf(n, m) ==
    [i \in 1..n |-> IF i <= m THEN Numbered(Pattern, i) ELSE Numbered(Other, i)]

\* <<>> is a value that is no array
MatchInputs ==
    [resumeSkills : Arrays(MaxSkills) \union {<<>>},
     jobSkills    : Arrays(MaxSkills) \union {<<>>}]
    \union UNION {{[resumeSkills |-> <<<<Pattern>>>>, jobSkills |-> <<JobSkillsOf(n, m)>>] :
                      m \in 0..n} : n \in 0..MaxRequired}

MatchInit ==
    /\ cin \in MatchInputs
    /\ cout = <<>>
    /\ StoreInit
    /\ KeyIdle
    /\ ReqIdle
    /\ SkillIdle

Compare ==
    /\ cout = <<>>
    /\ cout' = <<compareSkills(cin.resumeSkills, cin.jobSkills, DefaultOptions)>>
    /\ UNCHANGED <<cin, storeVars, keyVars, reqVars, skillVars>>

MatchNext == Compare

MatchSpec == MatchInit /\ [][MatchNext]_vars

(***************************************************************************)
(* Properties of MatchSpec                                                 *)
(***************************************************************************)
\* the alias of a lower-cased skill: its entry of the synonym table, or itself
AliasOf(skill) == IF skill \in DOMAIN synonymMap THEN synonymMap[skill] ELSE skill

\* the normalized skill set of a list: its non-empty strings trimmed,
\* lower-cased and alias-resolved
NormalizedSet(skills) ==
    IF skills = <<>> THEN {}
    ELSE {AliasOf(toLowerCase(trim(skills[1][i]))) :
             i \in {j \in DOMAIN skills[1] :
                       IsString(skills[1][j]) /\ trim(skills[1][j]) # <<>>}}

\* round(100 * matched / required), the half rounded up
RoundedPercent(required, matched) == (200 * matched + required) \div (2 * required)

\* C19: for every resume skill list and job skill list, compareSkills returns
\* matchedSkills and missingSkills that are disjoint and whose union is exactly
\* the normalized (trimmed, lower-cased, alias-resolved, de-duplicated) job
\* skill set.
C19_MatchedMissingPartition ==
    cout # <<>> =>
        /\ ~cout[1].threw
        /\ cout[1].matchedSkills \cap cout[1].missingSkills = {}
        /\ cout[1].matchedSkills \cup cout[1].missingSkills = NormalizedSet(cin.jobSkills)

\* C20: for every input, compareSkills returns matchPercentage =
\* round(100 * |matched| / |required|) over the normalized job skill set, 100
\* when that set is empty whatever the resume skills are, it never raises on an
\* empty resume or job skill set, and the value is an integer in 0..100.
C20_MatchPercentage ==
    cout # <<>> =>
        LET required == Cardinality(NormalizedSet(cin.jobSkills))
            matched  == Cardinality(cout[1].matchedSkills)
        IN  /\ NormalizedSet(cin.resumeSkills) = {} \/ required = 0 => ~cout[1].threw
            /\ ~cout[1].threw =>
                   /\ cout[1].matchPercentage \in 0..100
                   /\ required = 0 => cout[1].matchPercentage = 100
                   /\ required # 0 =>
                          cout[1].matchPercentage = RoundedPercent(required, matched)

(***************************************************************************)
(* compareSkillsWeighted. A weight is a number of tenths: the weights      *)
(* [must |-> 7, nice |-> 3] are mustHaveWeight 0.7 and niceToHaveWeight    *)
(* 0.3.                                                                    *)
(***************************************************************************)
\* Math.round((mustHaveScore * mustHaveWeight + niceToHaveScore *
\* niceToHaveWeight) * 100 / (mustHaveWeight + niceToHaveWeight)) with
\* mustHaveScore = mustHave% * (mustHaveWeight / 100) and niceToHaveScore
\* alike. The doubles of the code carry a relative error below 2^-49, so the
\* result is the rounding of the exact quotient, except that a quotient
\* exactly between two integers can be rounded to either of them.
WeightedMatchPercentages(mustHavePercentage, niceToHavePercentage, weights) ==
    LET numerator   == mustHavePercentage * weights.must * weights.must
                       + niceToHavePercentage * weights.nice * weights.nice
        denominator == 10 * (weights.must + weights.nice)
        halfUp      == (2 * numerator + denominator) \div (2 * denominator)
    IN  IF (2 * numerator) % denominator = 0 /\ ((2 * numerator) \div denominator) % 2 = 1
        THEN {halfUp - 1, halfUp}
        ELSE {halfUp}

\* compareSkillsWeighted(resumeSkills, {mustHave, niceToHave}, {mustHaveWeight,
\* niceToHaveWeight}): the results it can give
compareSkillsWeighted(resumeSkills, jobRequirements, weights) ==
    LET mustHaveComparison ==
            compareSkills(<<resumeSkills>>, <<jobRequirements.mustHave>>, DefaultOptions)
        niceToHaveComparison ==
            compareSkills(<<resumeSkills>>, <<jobRequirements.niceToHave>>, DefaultOptions)
        allJobSkills == jobRequirements.mustHave \o jobRequirements.niceToHave
        overallComparison ==
            compareSkills(<<resumeSkills>>, <<allJobSkills>>, DefaultOptions)
    IN  IF mustHaveComparison.threw \/ niceToHaveComparison.threw \/ overallComparison.threw
        THEN {[threw |-> TRUE]}
        ELSE {[threw                   |-> FALSE,
               weightedMatchPercentage |-> weighted,
               overallMatchPercentage  |-> overallComparison.matchPercentage,
               mustHave                |-> mustHaveComparison,
               niceToHave              |-> niceToHaveComparison,
               overall                 |-> [matchedSkills |-> overallComparison.matchedSkills,
                                            missingSkills |-> overallComparison.missingSkills,
                                            extraSkills   |-> overallComparison.extraSkills,
                                            totalSkills   |-> Len(allJobSkills)]] :
                 weighted \in WeightedMatchPercentages(mustHaveComparison.matchPercentage,
                                                       niceToHaveComparison.matchPercentage,
                                                       weights)}

(***************************************************************************)
(* WeightedSpec: compareSkillsWeighted applied to a resume skill list, the *)
(* two job skill lists and a pair of weights.                              *)
(***************************************************************************)
MaxTenths == 10

React == <<"R", "e", "a", "c", "t">>
Python == <<"P", "y", "t", "h", "o", "n">>
Sql == <<"S", "Q", "L">>

WeightedResumes == {<<>>, <<React, Python>>}
WeightedJobSkills ==
    {<<>>, <<React>>, <<Sql>>, <<React, Sql>>, <<React, Python, Sql>>}
Weights ==
    {w \in [must : 0..MaxTenths, nice : 0..MaxTenths] : w.must + w.nice > 0}

WeightedInputs ==
    [resumeSkills    : WeightedResumes,
     jobRequirements : [mustHave : WeightedJobSkills, niceToHave : WeightedJobSkills],
     weights         : Weights]

WeightedInit ==
    /\ cin \in WeightedInputs
    /\ cout = <<>>
    /\ StoreInit
    /\ KeyIdle
    /\ ReqIdle
    /\ SkillIdle

CompareWeighted ==
    /\ cout = <<>>
    /\ \E result \in compareSkillsWeighted(cin.resumeSkills, cin.jobRequirements,
                                           cin.weights) :
           cout' = <<result>>
    /\ UNCHANGED <<cin, storeVars, keyVars, reqVars, skillVars>>

WeightedNext == CompareWeighted

WeightedSpec == WeightedInit /\ [][WeightedNext]_vars

\* C21: for non-negative weights with w_must + w_nice > 0,
\* compareSkillsWeighted returns weightedMatchPercentage =
\* round((mustHave% * w_must + niceToHave% * w_nice) / (w_must + w_nice)),
\* each weight applied once; the value lies in 0..100 and is 100 when both
\* categories are fully matched. (A quotient exactly between two integers
\* may be rounded either way.)
C21_WeightedAverage ==
    cout # <<>> /\ ~cout[1].threw =>
        LET mustHave   == cout[1].mustHave.matchPercentage
            niceToHave == cout[1].niceToHave.matchPercentage
            weighted   == cout[1].weightedMatchPercentage
            sum        == cin.weights.must + cin.weights.nice
            average    == mustHave * cin.weights.must + niceToHave * cin.weights.nice
            distance   == IF weighted * sum >= average THEN weighted * sum - average
                          ELSE average - weighted * sum
        IN  /\ 2 * distance <= sum
            /\ weighted \in 0..100
            /\ mustHave = 100 /\ niceToHave = 100 => weighted = 100

(***************************************************************************)
(* NormalizeSpec: normalizeSkills applied to one skill string, and then to *)
(* what it returned.                                                       *)
(***************************************************************************)
MaxPad == 1

toUpperCaseChar(c) ==
    IF \E i \in DOMAIN LowerCase : LowerCase[i] = c
    THEN UpperCase[CHOOSE i \in DOMAIN LowerCase : LowerCase[i] = c]
    ELSE c
toUpperCase(str) == [i \in 1..Len(str) |-> toUpperCaseChar(str[i])]

Spaces(n) == [i \in 1..n |-> " "]

\* the keys of the synonym table, what they map to, two names that every
\* object inherits, a skill the table does not have, and the empty string
NormalizeWords ==
    DOMAIN synonymMap
    \union {synonymMap[key] : key \in DOMAIN synonymMap}
    \union {<<"c", "o", "n", "s", "t", "r", "u", "c", "t", "o", "r">>, <<"_", "_", "p", "r", "o", "t", "o", "_", "_">>, <<"r", "u", "s", "t">>, <<>>}

\* each of them in lower and in upper case, between spaces
NormalizeInputs ==
    {Spaces(left) \o word \o Spaces(right) :
        word \in NormalizeWords \union {toUpperCase(w) : w \in NormalizeWords},
        left \in 0..MaxPad, right \in 0..MaxPad}

NormalizeInit ==
    /\ cin \in [skill : NormalizeInputs]
    /\ cout = <<>>
    /\ StoreInit
    /\ KeyIdle
    /\ ReqIdle
    /\ SkillIdle

Normalize ==
    /\ cout = <<>>
    /\ LET once == normalizeSkills(<<<<cin.skill>>>>, FALSE, TRUE)
       IN  cout' = <<[once  |-> once,
                      twice |-> normalizeSkills(<<once>>, FALSE, TRUE)]>>
    /\ UNCHANGED <<cin, storeVars, keyVars, reqVars, skillVars>>

NormalizeNext == Normalize

NormalizeSpec == NormalizeInit /\ [][NormalizeNext]_vars

\* C22: for every skill string s, normalizing the result of normalizing s
\* (trim, lower-case, alias substitution through the synonym table) gives the
\* same token again; no alias target is itself a key that maps to a different
\* token.
C22_NormalizeIdempotent ==
    cout # <<>> =>
        /\ cout[1].twice = cout[1].once
        /\ \A key \in DOMAIN synonymMap :
               synonymMap[key] \in DOMAIN synonymMap =>
                   synonymMap[synonymMap[key]] = synonymMap[key]

(***************************************************************************)
(* categorizeJobSkills of server.js                                        *)
(***************************************************************************)
mustHaveIndicators ==
    {<<"r", "e", "q", "u", "i", "r", "e", "d">>,
     <<"m", "u", "s", "t", " ", "h", "a", "v", "e">>,
     <<"e", "s", "s", "e", "n", "t", "i", "a", "l">>,
     <<"m", "a", "n", "d", "a", "t", "o", "r", "y">>,
     <<"m", "i", "n", "i", "m", "u", "m">>,
     <<"q", "u", "a", "l", "i", "f", "i", "e", "d", " ", "c", "a", "n", "d", "i", "d", "a", "t", "e", "s", " ", "m", "u", "s", "t">>,
     <<"y", "o", "u", " ", "m", "u", "s", "t">>,
     <<"r", "e", "q", "u", "i", "r", "e", "d", " ", "e", "x", "p", "e", "r", "i", "e", "n", "c", "e">>,
     <<"m", "i", "n", "i", "m", "u", "m", " ", "q", "u", "a", "l", "i", "f", "i", "c", "a", "t", "i", "o", "n", "s">>,
     <<"b", "a", "s", "i", "c", " ", "r", "e", "q", "u", "i", "r", "e", "m", "e", "n", "t", "s">>}

niceToHaveIndicators ==
    {<<"p", "r", "e", "f", "e", "r", "r", "e", "d">>,
     <<"n", "i", "c", "e", " ", "t", "o", " ", "h", "a", "v", "e">>,
     <<"b", "o", "n", "u", "s">>,
     <<"p", "l", "u", "s">>,
     <<"a", "d", "v", "a", "n", "t", "a", "g", "e">>,
     <<"w", "o", "u", "l", "d", " ", "b", "e", " ", "g", "r", "e", "a", "t">>,
     <<"a", "d", "d", "i", "t", "i", "o", "n", "a", "l">>,
     <<"p", "r", "e", "f", "e", "r", "r", "e", "d", " ", "q", "u", "a", "l", "i", "f", "i", "c", "a", "t", "i", "o", "n", "s">>,
     <<"n", "i", "c", "e", "-", "t", "o", "-", "h", "a", "v", "e">>,
     <<"a", " ", "p", "l", "u", "s">>,
     <<"b", "e", "n", "e", "f", "i", "c", "i", "a", "l">>}

\* the characters at which description.split(/(?:\n|\.|!|\?)+/) splits
IsSectionEnd(c) == c \in {"\n", ".", "!", "?"}

\* The non-empty sections of the description. The empty sections that split
\* returns hold no indicator and so set neither flag.
Sections(description) ==
    {SubSeq(description, i, j) : <<i, j>> \in
        {w \in (1..Len(description)) \X (1..Len(description)) :
            /\ w[1] <= w[2]
            /\ \A k \in w[1]..w[2] : ~IsSectionEnd(description[k])
            /\ w[1] = 1 \/ IsSectionEnd(description[w[1] - 1])
            /\ w[2] = Len(description) \/ IsSectionEnd(description[w[2] + 1])}}

\* jobSkills.indexOf(skill), counted from 0
indexOf(array, element) == MinOf({i \in DOMAIN array : array[i] = element}) - 1

\* isMustHave and isNiceToHave of one skill after the sections were looked at
\* and the default was applied. index < jobSkills.length * 0.7 compares an
\* integer with a product that is exact to 2^-50, the comparison of the exact
\* numbers for a list shorter than 10.
Flags(description, jobSkills, skill) ==
    LET skillLower == toLowerCase(skill)
        sections   == {section \in Sections(description) : includes(section, skillLower)}
        mustHave   == \E section \in sections : \E indicator \in mustHaveIndicators :
                          includes(section, indicator)
        niceToHave == \E section \in sections : \E indicator \in niceToHaveIndicators :
                          includes(section, indicator)
    IN  [isMustHave   |-> IF ~mustHave /\ ~niceToHave
                          THEN 10 * indexOf(jobSkills, skill) < 7 * Len(jobSkills)
                          ELSE mustHave,
         isNiceToHave |-> niceToHave]

\* the skill is pushed to mustHaveSkills
PushedToMustHave(isMustHave, isNiceToHave) == isMustHave /\ ~isNiceToHave

\* a skill that is pushed to niceToHaveSkills only where it is marked so
PushedWhereMarked(isMustHave, isNiceToHave) == isNiceToHave

\* the skill is pushed to niceToHaveSkills: the else branch
PushedToNiceToHave(isMustHave, isNiceToHave) == ~(isMustHave /\ ~isNiceToHave)

\* categorizeJobSkills(jobData, jobSkills), description being
\* (jobData.description || '') in lower case
categorizeJobSkills(jobDescription, jobSkills) ==
    LET description == toLowerCase(jobDescription)
    IN  [mustHaveSkills   |->
             SelectSeq(jobSkills, LAMBDA skill :
                 LET flags == Flags(description, jobSkills, skill)
                 IN  PushedToMustHave(flags.isMustHave, flags.isNiceToHave)),
         niceToHaveSkills |->
             SelectSeq(jobSkills, LAMBDA skill :
                 LET flags == Flags(description, jobSkills, skill)
                 IN  PushedToNiceToHave(flags.isMustHave, flags.isNiceToHave))]

(***************************************************************************)
(* CategorizeSpec: categorizeJobSkills applied to a job description and a  *)
(* job skill list.                                                         *)
(***************************************************************************)
MaxJobSkills == 4

JobDescriptions ==
    {<<>>,
     <<"R", "e", "a", "c", "t", " ", "r", "e", "q", "u", "i", "r", "e", "d", ".", " ", "S", "Q", "L", " ", "i", "s", " ", "a", " ", "p", "l", "u", "s">>,
     <<"M", "u", "s", "t", " ", "h", "a", "v", "e", " ", "r", "e", "a", "c", "t", " ", "a", "n", "d", " ", "s", "q", "l", "!", "\n", "P", "y", "t", "h", "o", "n", " ", "p", "r", "e", "f", "e", "r", "r", "e", "d">>,
     <<"r", "e", "a", "c", "t", " ", "i", "s", " ", "r", "e", "q", "u", "i", "r", "e", "d", ",", " ", "a", " ", "b", "o", "n", "u", "s", " ", "t", "o", "o">>,
     <<"W", "e", " ", "u", "s", "e", " ", "P", "y", "t", "h", "o", "n">>}

CategorizedSkills ==
    {<<"R", "e", "a", "c", "t">>,
     <<"r", "e", "a", "c", "t">>,
     <<"S", "Q", "L">>,
     <<"P", "y", "t", "h", "o", "n">>}

CategorizeInputs ==
    [description : JobDescriptions,
     jobSkills   : UNION {[1..n -> CategorizedSkills] : n \in 0..MaxJobSkills}]

CategorizeInit ==
    /\ cin \in CategorizeInputs
    /\ cout = <<>>
    /\ StoreInit
    /\ KeyIdle
    /\ ReqIdle
    /\ SkillIdle

Categorize ==
    /\ cout = <<>>
    /\ cout' = <<categorizeJobSkills(cin.description, cin.jobSkills)>>
    /\ UNCHANGED <<cin, storeVars, keyVars, reqVars, skillVars>>

CategorizeNext == Categorize

CategorizeSpec == CategorizeInit /\ [][CategorizeNext]_vars

\* how often an element is in an array
Count(array, element) == Cardinality({i \in DOMAIN array : array[i] = element})

\* C23: for every job description and job skill list, categorizeJobSkills
\* places each job skill in exactly one of mustHaveSkills and
\* niceToHaveSkills: the two lists are disjoint and together contain every
\* input skill.
C23_CategoriesPartition ==
    cout # <<>> =>
        LET mustHaveSkills   == cout[1].mustHaveSkills
            niceToHaveSkills == cout[1].niceToHaveSkills
        IN  /\ SetOf(mustHaveSkills) \cap SetOf(niceToHaveSkills) = {}
            /\ SetOf(mustHaveSkills) \cup SetOf(niceToHaveSkills) = SetOf(cin.jobSkills)
            /\ \A skill \in SetOf(cin.jobSkills) :
                   Count(mustHaveSkills, skill) + Count(niceToHaveSkills, skill)
                       = Count(cin.jobSkills, skill)

\* a list was categorized that holds twice a skill which the description
\* marks as both required and a bonus, and two skills it does not name, one
\* within the first seven tenths of the list and one after them
C23_Witness ==
    /\ cout # <<>>
    /\ cin.description = <<"r", "e", "a", "c", "t", " ", "i", "s", " ", "r", "e", "q", "u", "i", "r", "e", "d", ",", " ", "a", " ", "b", "o", "n", "u", "s", " ", "t", "o", "o">>
    /\ cin.jobSkills = <<<<"R", "e", "a", "c", "t">>, <<"P", "y", "t", "h", "o", "n">>, <<"R", "e", "a", "c", "t">>, <<"S", "Q", "L">>>>
    /\ cout[1].mustHaveSkills = <<<<"P", "y", "t", "h", "o", "n">>>>
    /\ cout[1].niceToHaveSkills = <<<<"R", "e", "a", "c", "t">>, <<"R", "e", "a", "c", "t">>, <<"S", "Q", "L">>>>

(***************************************************************************)
(* SkillsMatchSpec: skillsMatch applied to two strings, with and without   *)
(* fuzzy matching.                                                         *)
(***************************************************************************)
SkillWords ==
    {<<"r", "e", "a", "c", "t">>,
     <<"R", "e", "a", "c", "t">>,
     <<"r", "e", "a", "c", "t", ".", "j", "s">>,
     <<"n", "o", "d", "e", " ", "j", "s">>,
     <<"n", "o", "d", "e", "-", "e", "x", "p", "r", "e", "s", "s">>,
     <<"k", "u", "b", "e", "r", "n", "e", "t", "e", "s">>,
     <<"k", "u", "b", "e", "r", "n", "e", "t", "i", "s">>,
     <<>>}

\* each of them between spaces
SkillStrings ==
    {Spaces(left) \o word \o Spaces(right) :
        word \in SkillWords, left \in 0..MaxPad, right \in 0..MaxPad}

SkillsMatchInit ==
    /\ cin \in [skill1 : SkillStrings, skill2 : SkillStrings, fuzzyMatching : BOOLEAN]
    /\ cout = <<>>
    /\ StoreInit
    /\ KeyIdle
    /\ ReqIdle
    /\ SkillIdle

SkillsMatch ==
    /\ cout = <<>>
    /\ cout' = <<skillsMatch(cin.skill1, cin.skill2, cin.fuzzyMatching)>>
    /\ UNCHANGED <<cin, storeVars, keyVars, reqVars, skillVars>>

SkillsMatchNext == SkillsMatch

SkillsMatchSpec == SkillsMatchInit /\ [][SkillsMatchNext]_vars

\* two strings are equal after trimming and lower-casing
EqualAsSkills(a, b) == toLowerCase(trim(a)) = toLowerCase(trim(b))

\* C24: skillsMatch(a, b, false) is true exactly when a and b are equal after
\* trimming and lower-casing; skillsMatch(a, b, true) is true for every pair
\* that matches non-fuzzily and for every pair where one string contains the
\* other.
C24_ExactAndContained ==
    cout # <<>> =>
        /\ ~cin.fuzzyMatching => (cout[1] <=> EqualAsSkills(cin.skill1, cin.skill2))
        /\ (/\ cin.fuzzyMatching
            /\ \/ EqualAsSkills(cin.skill1, cin.skill2)
               \/ includes(cin.skill1, cin.skill2)
               \/ includes(cin.skill2, cin.skill1)) => cout[1]

\* without fuzzy matching, two strings that differ in case and in the spaces
\* around them matched
C24_Witness ==
    /\ cout = <<TRUE>>
    /\ ~cin.fuzzyMatching
    /\ cin.skill1 = <<" ">> \o <<"r", "e", "a", "c", "t">>
    /\ cin.skill2 = <<"R", "e", "a", "c", "t">> \o <<" ">>

(***************************************************************************)
(* Cache hits, terminal events and the scoring of results (ReqSpec).       *)
(***************************************************************************)
\* the record stored under the key of the requests, <<>> if there is none
StoredRecord == loadAnalysisResult(store, ReqUrl, ReqResumeInfo, ReqDescription)

\* C25: an analysis request with forceRerun = false whose key has a stored
\* record returns that record's analysis marked as coming from the cache,
\* starts no AI or dictionary analysis, and leaves the store unchanged.
C25_CacheHit ==
    [][\A q \in Requests :
          (StoredRecord # <<>> /\ CacheCheck(q, FALSE)) =>
              /\ store' = store
              /\ \E q2 \in BagToSet(req') :
                    /\ req' = Moved(q, q2)
                    /\ q2.pc = "done"
                    /\ q2.answer = "none" /\ q2.analysisResult = <<>> /\ q2.doc = <<>>
                    /\ ~q2.touched
                    /\ Len(q2.terminal) = 1
                    /\ q2.terminal[1].type = "result"
                    /\ q2.terminal[1].isFromCache
                    /\ q2.terminal[1].aiEnabled = StoredRecord[1].analysisData.aiEnabled
                    /\ q2.terminal[1].analysisMethod \in
                           {StoredRecord[1].analysisData.analysisMethod, "cached"}]_vars

\* a request of the enhanced endpoint was answered from the cache with the
\* record that a streaming request had saved, and the record is still stored
C25_Witness ==
    /\ StoredRecord # <<>>
    /\ \E q \in Requests :
          /\ q.endpoint = "enhanced" /\ q.pc = "done" /\ ~q.touched
          /\ q.terminal = <<ResultEvent(StoredRecord[1].analysisData.analysisMethod,
                                        StoredRecord[1].analysisData.aiEnabled, TRUE)>>
          /\ StoredRecord[1].analysisData.aiEnabled

\* C26: every request to /api/analyze-resume-stream emits exactly one
\* terminal event, one 'result' or one 'error' and never both, every
\* 'progress' event of the request precedes it, and the response stream is
\* closed afterwards; a failure to save the result to the cache does not turn
\* the 'result' into an 'error'. As a property of states: a request has sent
\* at most one terminal event; it has sent one exactly when its handler has
\* ended, after which it takes no step and so sends nothing more; until then
\* it has a step to take, so that the event does come; and a request that
\* ended with an analysis result has sent it as a 'result'.
C26_OneTerminalEvent ==
    \A q \in Requests :
        q.endpoint = "stream" =>
            /\ Len(q.terminal) <= 1
            /\ q.terminal # <<>> <=> q.pc = "done"
            /\ q.pc = "done" => ~ENABLED RequestStep(q)
            /\ q.pc # "done" => ENABLED RequestStep(q)
            /\ (q.pc = "done" /\ q.analysisResult # <<>>) =>
                   q.terminal = <<FreshResult(q)>>

(***************************************************************************)
(* TextSpec: what the two analysis endpoints answer for a resume text and  *)
(* a job title and description. A text is the sequence of its words, which *)
(* single spaces keep apart; the word " " is white space of its own. The   *)
(* dictionary analysis makes the match percentage on both endpoints and    *)
(* with every provider, as combineAnalysisResults keeps it.                *)
(***************************************************************************)
MaxWords == 2

\* words of SKILLS_DICTIONARY, and two words that neither it nor
\* SKILL_ALIASES has
DictionarySkills == {"react", "python"}
TextWords == DictionarySkills \union {"hello", " "}
JobTitles == {<<>>, <<"engineer">>}

Texts == UNION {[1..n -> TextWords] : n \in 0..MaxWords}

\* !text
IsEmptyText(text) == text = <<>>
\* text.trim().length === 0
IsBlankText(text) == \A i \in DOMAIN text : text[i] = " "

\* extractSkills(text) of skillExtractor.js: the words of the dictionary that
\* stand in the text between word boundaries
extractSkills(text) == {text[i] : i \in DOMAIN text} \cap DictionarySkills

\* Math.round((matchedSkills.length / jobSkills.size) * 100), or 0
TextMatchPercentage(jobSkillsSize, matched) ==
    IF jobSkillsSize > 0
    THEN IF matched = 0 THEN 0
         ELSE MathRound(DoubleTimes100(DoubleDivide(matched, jobSkillsSize)))
    ELSE 0

\* compareSkills(resumeText, jobText) of skillExtractor.js
compareSkillsOfTexts(resumeText, jobText) ==
    LET resumeSkills == extractSkills(resumeText)
        jobSkills    == extractSkills(jobText)
    IN  [matchPercentage   |-> TextMatchPercentage(Cardinality(jobSkills),
                                   Cardinality(resumeSkills \cap jobSkills)),
         matchedSkills     |-> resumeSkills \cap jobSkills,
         missingSkills     |-> jobSkills \ resumeSkills,
         extraSkills       |-> resumeSkills \ jobSkills,
         totalJobSkills    |-> Cardinality(jobSkills),
         totalResumeSkills |-> Cardinality(resumeSkills)]

\* the error a handler answers with for a request body, "" if it has none
ValidateTexts(endpoint, resumeContent, title, description) ==
    CASE IsEmptyText(resumeContent) /\ endpoint = "enhanced" -> "MISSING_RESUME_DATA"
      [] IsEmptyText(resumeContent) /\ endpoint = "stream" -> "No resume content provided"
      [] ~IsEmptyText(resumeContent)
            /\ (IsEmptyText(title) \/ IsEmptyText(description)) ->
            IF endpoint = "enhanced" THEN "MISSING_JOB_DATA"
            ELSE "Invalid job data. Title and description are required."
      [] ~IsEmptyText(resumeContent) /\ ~IsEmptyText(title) /\ ~IsEmptyText(description)
            /\ IsBlankText(resumeContent) ->
            IF endpoint = "enhanced" THEN "EMPTY_RESUME_CONTENT"
            ELSE "Resume content is empty or could not be processed"
      [] OTHER -> ""

\* The answer to a request that finds no cached record: an error, or the
\* result with what it tells of the skills. The enhanced endpoint answers
\* with matchScore.overall and the names of the matched and missing skills,
\* the streaming endpoint with the whole analysis.
TextResponse(endpoint, resumeContent, title, description) ==
    LET error    == ValidateTexts(endpoint, resumeContent, title, description)
        analysis == compareSkillsOfTexts(resumeContent, title \o description)
    IN  IF error # ""
        THEN [type |-> "error", error |-> error, matchPercentage |-> 0,
              matchedSkills |-> {}, missingSkills |-> {}, totalResumeSkills |-> <<>>]
        ELSE [type |-> "result", error |-> "",
              matchPercentage   |-> analysis.matchPercentage,
              matchedSkills     |-> analysis.matchedSkills,
              missingSkills     |-> analysis.missingSkills,
              totalResumeSkills |-> IF endpoint = "stream"
                                    THEN <<analysis.totalResumeSkills>> ELSE <<>>]

TextInit ==
    /\ cin \in [endpoint : Endpoints, resumeContent : Texts, title : JobTitles,
                description : Texts]
    /\ cout = <<>>
    /\ StoreInit
    /\ KeyIdle
    /\ ReqIdle
    /\ SkillIdle

Respond ==
    /\ cout = <<>>
    /\ cout' = <<TextResponse(cin.endpoint, cin.resumeContent, cin.title,
                              cin.description)>>
    /\ UNCHANGED <<cin, storeVars, keyVars, reqVars, skillVars>>

TextNext == Respond

TextSpec == TextInit /\ [][TextNext]_vars

\* C27: an analysis request for which extraction can yield no skills (for
\* example empty resume text or empty job text) is answered with an
\* insufficient-input error condition, distinguishable from a successful
\* result whose matchPercentage is 0 because no required skill overlaps.
C27_InsufficientInput ==
    (/\ cout # <<>>
     /\ \/ extractSkills(cin.resumeContent) = {}
        \/ extractSkills(cin.title \o cin.description) = {}) =>
        cout[1].type = "error"

\* C28: in /api/analyze-resume-enhanced, whenever the AI-enhanced analysis
\* succeeded, the response and the cached payload are computed by
\* compareSkillsWeighted over the extracted skill sets and carry aiEnabled =
\* true; the basic-response branch (aiEnabled = false) is taken only when the
\* analysis fell back to the dictionary.
C28_EngineScoresAI ==
    \A q \in Requests :
        (q.endpoint = "enhanced" /\ q.analysisResult # <<>>) =>
            /\ q.answer = "ok" =>
                   /\ ResponseBranch(q.analysisResult[1]) = "weighted"
                   /\ q.doc[1].analysisData.aiEnabled
                   /\ q.pc = "done" => q.terminal[Len(q.terminal)].aiEnabled
            /\ ResponseBranch(q.analysisResult[1]) = "basic" => q.answer # "ok"

(***************************************************************************)
(* AddSpec: concurrent POST /api/add-skill requests. A handler awaits the   *)
(* read of me/added_skills.json, the write of the list it extended, and     *)
(* the deletion of the cached analysis; other handlers run at each await.   *)
(***************************************************************************)
MaxAdders == 2      \* add-skill requests of a run of AddSpec

\* the length of JSON.stringify(skillsData, null, 2) for a list that is not
\* empty: the brackets and keys, a line for each skill and one for each
\* ISO timestamp (24 characters)
RECURSIVE SkillLines(_)
SkillLines(skills) ==
    IF skills = <<>> THEN 0 ELSE Len(Head(skills)) + 8 + SkillLines(Tail(skills))
JsonLength(skillsData) ==
    39 + SkillLines(skillsData.skills) + 32 * Len(skillsData.addedAt)

\* a request as it arrives: skillsData is the list its handler holds
NewAdder(skill, jobUrl) ==
    [skill |-> skill, jobUrl |-> jobUrl, pc |-> "loading",
     skillsData |-> [skills |-> <<>>, addedAt |-> <<>>], answer |-> "none"]

\* the request arrives and its body is validated: 400 MISSING_SKILL, or the
\* handler calls loadAddedSkills and awaits
AddArrive(skill, jobUrl) ==
    /\ Len(adders) < MaxAdders
    /\ adders' = Append(adders,
                        IF SkillName(skill) = ""
                        THEN [NewAdder(skill, jobUrl) EXCEPT !.pc = "done", !.answer = "400"]
                        ELSE NewAdder(skill, jobUrl))
    /\ UNCHANGED addedSkills

\* readFile resolves and JSON.parse runs; then, without an await between,
\* the handler answers alreadyExists, or pushes the skill and the time and
\* calls saveAddedSkills. A text that does not parse is a 500.
AddLoad(i) ==
    LET a         == adders[i]
        skillName == SkillName(a.skill)
        loaded    == [skills |-> addedSkills.skills, addedAt |-> addedSkills.addedAt]
        exists    == \E k \in DOMAIN loaded.skills : loaded.skills[k] = skillName
    IN  /\ a.pc = "loading"
        /\ adders' = [adders EXCEPT ![i] =
              IF ~addedSkills.parses
              THEN [a EXCEPT !.pc = "done", !.answer = "500"]
              ELSE IF exists
              THEN [a EXCEPT !.pc = "done", !.answer = "exists", !.skillsData = loaded]
              ELSE [a EXCEPT !.pc = "saving",
                             !.skillsData = [skills  |-> Append(loaded.skills, skillName),
                                             addedAt |-> Append(loaded.addedAt, clock)]]]
        /\ UNCHANGED addedSkills

\* fs.promises.writeFile, first half: the open with flag 'w' empties the
\* file; a failing open is a 500
AddOpen(i, io) ==
    LET a == adders[i]
    IN  /\ a.pc = "saving"
        /\ IF io = "ok"
           THEN /\ addedSkills' = [parses |-> FALSE, skills |-> <<>>, addedAt |-> <<>>]
                /\ adders' = [adders EXCEPT ![i].pc = "opened"]
           ELSE /\ adders' = [adders EXCEPT ![i].pc = "done", ![i].answer = "500"]
                /\ UNCHANGED addedSkills

\* the file after the text of skillsData is written at offset 0 through a
\* handle of its own: a longer text written meanwhile keeps its tail, and
\* the file does not parse
WrittenOver(old, skillsData) ==
    IF old.parses /\ JsonLength(old) > JsonLength(skillsData)
    THEN [parses |-> FALSE, skills |-> <<>>, addedAt |-> <<>>]
    ELSE [parses |-> TRUE, skills |-> skillsData.skills, addedAt |-> skillsData.addedAt]

\* fs.promises.writeFile, second half: the text is written and the handle
\* closed; without a jobUrl the handler answers at once. A failing write is
\* a 500 and leaves the file as it is.
AddWrite(i, io) ==
    LET a == adders[i]
    IN  /\ a.pc = "opened"
        /\ IF io = "ok"
           THEN /\ addedSkills' = WrittenOver(addedSkills, a.skillsData)
                /\ adders' = [adders EXCEPT ![i] =
                      IF a.jobUrl # "" THEN [a EXCEPT !.pc = "deleting"]
                      ELSE [a EXCEPT !.pc = "done", !.answer = "added"]]
           ELSE /\ adders' = [adders EXCEPT ![i].pc = "done", ![i].answer = "500"]
                /\ UNCHANGED addedSkills

\* dataManager.deleteAnalysis(jobUrl, {}) resolves and the handler answers
AddDelete(i) ==
    LET a == adders[i]
    IN  /\ a.pc = "deleting"
        /\ store' = deleteAnalysisFrom(store, a.jobUrl, NoResumeInfo).store
        /\ adders' = [adders EXCEPT ![i].pc = "done", ![i].answer = "added"]
        /\ UNCHANGED <<addedSkills, clock, ret>>

AddIoOutcomes == {"ok", "error"}

AddNext ==
    \/ \E skill \in AddSkillInputs, jobUrl \in JobUrls :
           AddArrive(skill, jobUrl) /\ UNCHANGED <<storeVars, keyVars, reqVars, matchVars>>
    \/ \E i \in DOMAIN adders :
           AddLoad(i) /\ UNCHANGED <<storeVars, keyVars, reqVars, matchVars>>
    \/ \E i \in DOMAIN adders, io \in AddIoOutcomes :
           AddOpen(i, io) /\ UNCHANGED <<storeVars, keyVars, reqVars, matchVars>>
    \/ \E i \in DOMAIN adders, io \in AddIoOutcomes :
           AddWrite(i, io) /\ UNCHANGED <<storeVars, keyVars, reqVars, matchVars>>
    \/ \E i \in DOMAIN adders :
           AddDelete(i) /\ UNCHANGED <<keyVars, reqVars, matchVars>>

AddSpec == Init /\ [][AddNext]_vars

\* the requests that were answered success: true
Acknowledged == {i \in DOMAIN adders : adders[i].answer \in {"added", "exists"}}

\* C29: once every add-skill request has completed, the stored list holds
\* the skill of every request that answered success, holds no skill twice,
\* and its skills and addedAt have the same length
C29_NoAcknowledgedSkillLost ==
    (\A i \in DOMAIN adders : adders[i].pc = "done") =>
        /\ \A i \in Acknowledged :
               \E k \in DOMAIN addedSkills.skills :
                   addedSkills.skills[k] = SkillName(adders[i].skill)
        /\ \A k, l \in DOMAIN addedSkills.skills :
               addedSkills.skills[k] = addedSkills.skills[l] => k = l
        /\ Len(addedSkills.skills) = Len(addedSkills.addedAt)


\* C30: in every state of the store each file holds one whole document
\* {url, timestamp, analysisData, metadata}, and its name starts with the
\* hostname and the hash of the url that document records
C30_WholeRecords ==
    \A file \in DOMAIN store :
        LET parsed == JsonParse(store[file])
        IN  /\ parsed # <<>>
            /\ UrlParses(parsed[1].url)
            /\ SubSeq(file, 1, 2) = <<Hostname(parsed[1].url), Md5Hex(parsed[1].url)>>

====
